---- MODULE Spec2Model ----
(***************************************************************************)
(* Session persistence of nexus-ai: the SessionManager (session/manager.py)*)
(* over a POSIX directory, the CompletionHandler's session side effect     *)
(* (core/completion_handler.py) and the chat REPL with its background      *)
(* saves (cli/repl.py).                                                    *)
(*                                                                         *)
(* Names and paths are sequences of one-character strings; the suffixes    *)
(* ".json" and ".tmp" are single tokens.  A file is an inode holding a     *)
(* sequence of document entries, so that truncation, partial writes and    *)
(* writes through a descriptor whose name was renamed are all visible.     *)
(***************************************************************************)
EXTENDS Integers, Sequences, FiniteSets, TLC

VARIABLES
    fs,      \* the file system: directory entries and inode contents
    now,     \* the wall clock read by datetime.now()
    sess,    \* the Session object held by the running call path, or None
    last,    \* record of the last completed store / router call
    rpc,     \* REPL main coroutine: position in repl_main
    bg,      \* executor threads running save_session for the REPL
    hist,    \* REPL history: what the last REPL command observed
    calls,   \* number of store and router calls made so far
    san,     \* name sanitizers: the name handed in and what came back
    tree,    \* the files, directories and symbolic links of the machine
    pval,    \* path validation and file intake: the call and its result
    procs,   \* processes saving one session: each one's place in save_session
    reg,     \* the ProviderManager: its providers, its cache, its last call
    strm,    \* one _handle_streaming call: the stream's run and what came back
    nons,    \* one _handle_non_streaming call: its clock readings and result
    brw,     \* listing, search and cleanup of the sessions directory: file times, the call, its result
    cch,     \* the CacheManager: its files, its clock, the last set of each key, the last get
    rsv,     \* one _resolve_model_selection call: its input and its result
    cfg,     \* the configuration file and the loaded configuration
    sel      \* the fuzzy selector: its results, its page and its highlight

\* the state of the session store, the router and the REPL
storeVars == <<fs, now, sess, last, rpc, bg, hist, calls>>

\* the state of the other components
extVars == <<san, tree, pval, procs, reg, strm, nons, brw, cch, rsv, cfg, sel>>

\* what the calls of one component leave alone
besideNames == <<storeVars, tree, pval, procs, reg, strm, nons, brw, cch, rsv, cfg, sel>>
besidePaths == <<storeVars, san, procs, reg, strm, nons, brw, cch, rsv, cfg, sel>>
besideProcs ==
    <<now, sess, last, rpc, bg, hist, calls, san, tree, pval, reg, strm, nons, brw, cch, rsv, cfg, sel>>
besideRegistry == <<storeVars, san, tree, pval, procs, strm, nons, brw, cch, rsv, cfg, sel>>
besideStreaming == <<storeVars, san, tree, pval, procs, reg, nons, brw, cch, rsv, cfg, sel>>
besideNonStreaming == <<storeVars, san, tree, pval, procs, reg, strm, brw, cch, rsv, cfg, sel>>
besideBrowse ==
    <<sess, last, rpc, bg, hist, calls, san, tree, pval, procs, reg, strm, nons,
      cch, rsv, cfg, sel>>
besideCache == <<storeVars, san, tree, pval, procs, reg, strm, nons, brw, rsv, cfg, sel>>
besideResolve == <<storeVars, san, tree, pval, procs, reg, strm, nons, brw, cch, cfg, sel>>
besideConfig == <<storeVars, san, tree, pval, procs, reg, strm, nons, brw, cch, rsv, sel>>
besideSelector == <<storeVars, san, tree, pval, procs, reg, strm, nons, brw, cch, rsv, cfg>>

vars == <<storeVars, extVars>>

----------------------------------------------------------------------------
(* Bounds *)

MaxTime == 1          \* the clock stops advancing here
MaxTurns == 2         \* no turn is appended to a session holding this many
MaxCalls == 3         \* store and router calls in one run
MaxReplTurns == 2     \* REPL exchanges (each spawns one background save)
MaxReplCmds == 2      \* REPL commands other than /exit in one run

Max(a, b) == IF a >= b THEN a ELSE b
Min(a, b) == IF a <= b THEN a ELSE b

None == [none |-> TRUE]
EmptyDict == [k \in {} |-> 0]

----------------------------------------------------------------------------
(* Session names and paths *)

\* manager.py:38
InvalidChars == {"<", ">", ":", "\"", "/", "\\", "|", "?", "*"}

\* str.strip() removes leading and trailing whitespace
Whitespace == {" ", "\t", "\n"}

RECURSIVE LStrip(_)
LStrip(s) ==
    IF s # <<>> /\ Head(s) \in Whitespace THEN LStrip(Tail(s)) ELSE s

RECURSIVE RStrip(_)
RStrip(s) ==
    IF s # <<>> /\ s[Len(s)] \in Whitespace
    THEN RStrip(SubSeq(s, 1, Len(s) - 1))
    ELSE s

Strip(s) == RStrip(LStrip(s))

\* SessionManager._sanitize_name
SanitizeName(name) ==
    Strip([i \in 1..Len(name) |->
              IF name[i] \in InvalidChars THEN "_" ELSE name[i]])

\* SessionManager._get_session_path: sessions_dir / f"{name}.json"
GetSessionPath(name) == name \o <<".json">>

\* the session file's own path taken as the temp path: a write in place
TmpPathInPlace(path) == path

\* Path.with_suffix(".tmp"): the last component's suffix is replaced; a
\* component that is ".json" alone has no suffix and gets one appended
TmpPath(path) ==
    IF Len(path) = 1 \/ path[Len(path) - 1] = "/"
    THEN path \o <<".tmp">>
    ELSE SubSeq(path, 1, Len(path) - 1) \o <<".tmp">>

\* the directory part of a relative path, up to and including the last "/"
RECURSIVE DirPart(_)
DirPart(path) ==
    IF path = <<>> THEN <<>>
    ELSE IF path[Len(path)] = "/" THEN path
    ELSE DirPart(SubSeq(path, 1, Len(path) - 1))

\* directories that exist: the sessions directory and its parent
ExistingDirs == {<<>>, <<".", ".", "/">>}

----------------------------------------------------------------------------
(* Files: directory entries name inodes, inodes hold entry sequences *)

EmptyFs == [dir |-> [p \in {} |-> 0], ino |-> [i \in {} |-> <<>>]]

FsExists(f, p) == p \in DOMAIN f.dir

FsRead(f, p) == f.ino[f.dir[p]]

FreshIno(f, held) ==
    CHOOSE i \in 1..(Cardinality(DOMAIN f.ino \cup held) + 1) :
        /\ i \notin DOMAIN f.ino \cup held
        /\ \A j \in 1..(i - 1) : j \in DOMAIN f.ino \cup held

\* inodes with no directory entry and no open descriptor are freed
FsGc(f, held) ==
    LET live == {f.dir[p] : p \in DOMAIN f.dir} \cup held
    IN [dir |-> f.dir,
        ino |-> [i \in (DOMAIN f.ino \cap live) |-> f.ino[i]]]

\* open(path, "w"): create, or truncate the inode the name refers to
FsOpenW(f, p, held) ==
    IF FsExists(f, p)
    THEN [fs |-> [dir |-> f.dir,
                  ino |-> [f.ino EXCEPT ![f.dir[p]] = <<>>]],
          ino |-> f.dir[p]]
    ELSE LET i == FreshIno(f, held)
         IN [fs |-> [dir |-> [q \in DOMAIN f.dir \cup {p} |->
                                 IF q = p THEN i ELSE f.dir[q]],
                     ino |-> [j \in DOMAIN f.ino \cup {i} |->
                                 IF j = i THEN <<>> ELSE f.ino[j]]],
             ino |-> i]

\* write(fd, data) at offset off of the inode behind the descriptor
FsWriteAt(f, i, off, data) ==
    LET old == f.ino[i]
        n == Max(Len(old), off + Len(data))
    IN [dir |-> f.dir,
        ino |-> [f.ino EXCEPT ![i] =
                    [k \in 1..n |->
                        IF k > off /\ k <= off + Len(data)
                        THEN data[k - off]
                        ELSE old[k]]]]

\* os.replace(src, dst): dst now names src's inode, src is gone
FsReplace(f, src, dst, held) ==
    LET i == f.dir[src]
    IN FsGc([dir |-> [q \in (DOMAIN f.dir \cup {dst}) \ {src} |->
                         IF q = dst THEN i ELSE f.dir[q]],
             ino |-> f.ino], held)

\* unlink(p)
FsUnlink(f, p, held) ==
    FsGc([dir |-> [q \in DOMAIN f.dir \ {p} |-> f.dir[q]],
          ino |-> f.ino], held)

----------------------------------------------------------------------------
(* Sessions, turns and the JSON document *)

\* models.py Turn
Turn(role, content, model, tokens) ==
    [role |-> role, content |-> content, model |-> model, tokens |-> tokens]

\* models.py Session
NewSession(name, model, provider, t) ==
    [name |-> name, created_at |-> t, updated_at |-> t, model |-> model,
     provider |-> provider, total_tokens |-> 0, turns |-> <<>>]

\* dict.get(key, default)
DictGet(d, key, default) == IF key \in DOMAIN d THEN d[key] ELSE default

\* Session.model_dump_json: the header, one entry per turn, the closing
DumpJson(s) ==
    <<[tag |-> "hdr",
       val |-> [name |-> s.name, created_at |-> s.created_at,
                updated_at |-> s.updated_at, model |-> s.model,
                provider |-> s.provider, total_tokens |-> s.total_tokens]]>>
    \o [i \in 1..Len(s.turns) |-> [tag |-> "turn", val |-> s.turns[i]]]
    \o <<[tag |-> "end", val |-> EmptyDict]>>

WellFormed(doc) ==
    /\ Len(doc) >= 2
    /\ doc[1].tag = "hdr"
    /\ doc[Len(doc)].tag = "end"
    /\ \A i \in 2..(Len(doc) - 1) : doc[i].tag = "turn"

\* Session.model_validate_json; None stands for the raised parse error
ValidateJson(doc) ==
    IF WellFormed(doc)
    THEN [name |-> doc[1].val.name,
          created_at |-> doc[1].val.created_at,
          updated_at |-> doc[1].val.updated_at,
          model |-> doc[1].val.model,
          provider |-> doc[1].val.provider,
          total_tokens |-> doc[1].val.total_tokens,
          turns |-> [i \in 1..(Len(doc) - 2) |-> doc[i + 1].val]]
    ELSE None

\* SessionManager.load_session
LoadSession(f, name) ==
    LET p == GetSessionPath(SanitizeName(name))
    IN IF ~FsExists(f, p) THEN None ELSE ValidateJson(FsRead(f, p))

----------------------------------------------------------------------------
(* SessionManager operations *)

\* what can go wrong inside save_session: an OSError raised by open, by the
\* write after k entries or by replace, or an interruption (KeyboardInterrupt,
\* a kill) after open and k written entries
Faults(n) ==
    {[kind |-> "none", k |-> 0], [kind |-> "open", k |-> 0],
     [kind |-> "replace", k |-> n], [kind |-> "write", k |-> 1]}
    \cup {[kind |-> "kill", k |-> k] : k \in {0, 1, n}}

NoFault == [kind |-> "none", k |-> 0]

\* save_session whose handler raises again without removing the temp file
SaveSessionNoCleanup(f, s, fault) ==
    LET path == GetSessionPath(s.name)
        tmp == TmpPath(path)
        doc == DumpJson(s)
        canOpen == DirPart(tmp) \in ExistingDirs /\ fault.kind # "open"
        o == FsOpenW(f, tmp, {})
        written(k) ==
            FsWriteAt(o.fs, o.ino, 0, SubSeq(doc, 1, Min(k, Len(doc))))
    IN IF ~canOpen THEN [fs |-> f, ret |-> "raised"]
       ELSE IF fault.kind = "kill"
       THEN [fs |-> written(fault.k), ret |-> "killed"]
       ELSE IF fault.kind = "write"
       THEN [fs |-> written(fault.k), ret |-> "raised"]
       ELSE IF fault.kind = "replace"
       THEN [fs |-> written(Len(doc)), ret |-> "raised"]
       ELSE [fs |-> FsReplace(written(Len(doc)), tmp, path, {}),
             ret |-> "ok"]

\* SessionManager.save_session, for a session whose updated_at was just set
SaveSession(f, s, fault) ==
    LET path == GetSessionPath(s.name)
        tmp == TmpPath(path)
        doc == DumpJson(s)
        canOpen == DirPart(tmp) \in ExistingDirs /\ fault.kind # "open"
        o == FsOpenW(f, tmp, {})
        written(k) ==
            FsWriteAt(o.fs, o.ino, 0, SubSeq(doc, 1, Min(k, Len(doc))))
        cleanup(g) == IF FsExists(g, tmp) THEN FsUnlink(g, tmp, {}) ELSE g
    IN IF ~canOpen
       THEN [fs |-> cleanup(f), ret |-> "raised"]
       ELSE IF fault.kind = "kill"
       THEN [fs |-> written(fault.k), ret |-> "killed"]
       ELSE IF fault.kind = "write"
       THEN [fs |-> cleanup(written(fault.k)), ret |-> "raised"]
       ELSE IF fault.kind = "replace"
       THEN [fs |-> cleanup(written(Len(doc))), ret |-> "raised"]
       ELSE [fs |-> FsReplace(written(Len(doc)), tmp, path, {}),
             ret |-> "ok"]

\* save_session line 115: session.updated_at = datetime.now()
Touch(s, t) == [s EXCEPT !.updated_at = t]

\* create_session that leaves an existing file alone
CreateSessionIfAbsent(f, name, model, provider, t0, t, fault) ==
    LET s == Touch(NewSession(SanitizeName(name), model, provider, t0), t)
        r == SaveSession(f, s, fault)
    IN IF FsExists(f, GetSessionPath(s.name))
       THEN [fs |-> f, ret |-> "ok", session |-> s]
       ELSE [fs |-> r.fs, ret |-> r.ret,
             session |-> IF r.ret = "ok" THEN s ELSE None]

\* SessionManager.create_session; t0 is the clock at construction, t at save
CreateSession(f, name, model, provider, t0, t, fault) ==
    LET s == Touch(NewSession(SanitizeName(name), model, provider, t0), t)
        r == SaveSession(f, s, fault)
    IN [fs |-> r.fs, ret |-> r.ret,
        session |-> IF r.ret = "ok" THEN s ELSE None]

\* SessionManager.get_or_create_session
GetOrCreateSession(f, name, model, provider, t0, t, fault) ==
    LET s == LoadSession(f, name)
    IN IF s # None
       THEN [fs |-> f, ret |-> "ok", session |-> s]
       ELSE CreateSession(f, name, model, provider, t0, t, fault)

\* the prefix ".temp-" of temporary session names
TempPrefix == <<".", "t", "e", "m", "p", "-">>

\* str.startswith(".temp-")
IsTempName(name) ==
    Len(name) >= Len(TempPrefix)
    /\ SubSeq(name, 1, Len(TempPrefix)) = TempPrefix

Digits == <<"0", "1", "2", "3", "4", "5", "6", "7", "8", "9">>

\* SessionManager.get_temp_session: the name is ".temp-" and the clock value
GetTempSession(f, model, provider, t0, t, fault) ==
    CreateSession(f, TempPrefix \o <<Digits[(t0 % 10) + 1]>>, model, provider,
                  t0, t, fault)

\* SessionManager.add_turn, the in-memory part
AddTurn(s, turn) ==
    [s EXCEPT !.turns = Append(@, turn),
              !.total_tokens = @ + DictGet(turn.tokens, "total", 0)]

\* SessionManager.delete_session; held are the inodes behind open descriptors
DeleteSession(f, name, held) ==
    LET p == GetSessionPath(SanitizeName(name))
    IN IF ~FsExists(f, p)
       THEN [fs |-> f, ret |-> "false"]
       ELSE [fs |-> FsUnlink(f, p, held), ret |-> "true"]

\* rename_session without the check that the new name is free
RenameSessionOverwriting(f, old_name, new_name, t, fault) ==
    LET old_sanitized == SanitizeName(old_name)
        new_sanitized == SanitizeName(new_name)
        old_path == GetSessionPath(old_sanitized)
        session == LoadSession(f, old_sanitized)
        r == SaveSession(f, Touch([session EXCEPT !.name = new_sanitized], t),
                         fault)
    IN IF ~FsExists(f, old_path) THEN [fs |-> f, ret |-> "false"]
       ELSE IF session = None THEN [fs |-> f, ret |-> "false"]
       ELSE IF r.ret = "ok"
       THEN [fs |-> FsUnlink(r.fs, old_path, {}), ret |-> "true"]
       ELSE [fs |-> r.fs,
             ret |-> IF r.ret = "killed" THEN "killed" ELSE "false"]

\* SessionManager.rename_session
RenameSession(f, old_name, new_name, t, fault) ==
    LET old_sanitized == SanitizeName(old_name)
        new_sanitized == SanitizeName(new_name)
        old_path == GetSessionPath(old_sanitized)
        new_path == GetSessionPath(new_sanitized)
        session == LoadSession(f, old_sanitized)
        r == SaveSession(f, Touch([session EXCEPT !.name = new_sanitized], t),
                         fault)
    IN IF ~FsExists(f, old_path) THEN [fs |-> f, ret |-> "false"]
       ELSE IF FsExists(f, new_path) THEN [fs |-> f, ret |-> "false"]
       ELSE IF session = None THEN [fs |-> f, ret |-> "false"]
       ELSE IF r.ret = "ok"
       THEN [fs |-> FsUnlink(r.fs, old_path, {}), ret |-> "true"]
       ELSE [fs |-> r.fs,
             ret |-> IF r.ret = "killed" THEN "killed" ELSE "false"]

----------------------------------------------------------------------------
(* CompletionHandler *)

RECURSIVE Join(_)
\* "".join(response_buffer)
Join(chunks) ==
    IF chunks = <<>> THEN <<>> ELSE Head(chunks) \o Join(Tail(chunks))

ZeroTokens == [prompt |-> 0, completion |-> 0, total |-> 0]

\* CompletionHandler._handle_streaming: run.chunks are the fragments the
\* provider yielded before the stream ended (run.ending = "done"), was
\* interrupted ("interrupt") or raised ("error")
HandleStreaming(run) ==
    [content |-> Join(run.chunks),
     tokens |-> IF run.ending = "done" THEN ZeroTokens ELSE EmptyDict]

\* CompletionHandler._handle_non_streaming: resp is the provider's
\* CompletionResponse, or None when provider.complete raised
HandleNonStreaming(resp) ==
    IF resp = None
    THEN [content |-> <<>>, tokens |-> EmptyDict]
    ELSE [content |-> resp.content,
          tokens |-> IF DOMAIN resp.usage # {}
                     THEN [prompt |-> DictGet(resp.usage, "prompt_tokens", 0),
                           completion |->
                               DictGet(resp.usage, "completion_tokens", 0),
                           total |-> DictGet(resp.usage, "total_tokens", 0)]
                     ELSE EmptyDict]

\* _save_to_session that saves after each add_turn (save=True)
SaveToSessionEachTurn(f, session_name, prompt, content, model, tokens, t, fault) ==
    LET session == LoadSession(f, session_name)
        s1 == Touch(AddTurn(session, Turn("user", prompt, model, EmptyDict)),
                    t)
        r1 == SaveSession(f, s1, NoFault)
        s2 == Touch(AddTurn(s1, Turn("assistant", content, model, tokens)), t)
        r == SaveSession(r1.fs, s2, fault)
    IN IF session = None
       THEN [fs |-> f, ret |-> "notfound", session |-> None]
       ELSE [fs |-> r.fs,
             ret |-> IF r.ret = "raised" THEN "logged" ELSE r.ret,
             session |-> s2]

\* CompletionHandler._save_to_session; an Exception of save_session is
\* logged here, an interruption is not
SaveToSession(f, session_name, prompt, content, model, tokens, t, fault) ==
    LET session == LoadSession(f, session_name)
        s1 == AddTurn(session, Turn("user", prompt, model, EmptyDict))
        s2 == Touch(AddTurn(s1, Turn("assistant", content, model, tokens)), t)
        r == SaveSession(f, s2, fault)
    IN IF session = None
       THEN [fs |-> f, ret |-> "notfound", session |-> None]
       ELSE [fs |-> r.fs,
             ret |-> IF r.ret = "raised" THEN "logged" ELSE r.ret,
             session |-> s2]

\* complete that saves to the session whatever the content
CompleteAnyContent(f, req, t, fault) ==
    LET h == IF req.stream THEN HandleStreaming(req.run)
             ELSE HandleNonStreaming(req.resp)
        r == SaveToSession(f, req.session_name, req.prompt, h.content,
                           req.model, h.tokens, t, fault)
    IN IF ~req.resolved \/ ~req.instance
       THEN [fs |-> f, ret |-> "error", session |-> None,
             content |-> <<>>, ran |-> FALSE]
       ELSE IF req.session_name # <<>> /\ req.has_store
       THEN [fs |-> r.fs, ret |-> r.ret, session |-> r.session,
             content |-> h.content, ran |-> TRUE]
       ELSE [fs |-> f, ret |-> "ok", session |-> None,
             content |-> h.content, ran |-> FALSE]

\* CompletionHandler.complete.  req.resolved: provider and model resolved
\* to non-empty strings; req.instance: get_provider returned a client
Complete(f, req, t, fault) ==
    LET h == IF req.stream THEN HandleStreaming(req.run)
             ELSE HandleNonStreaming(req.resp)
        r == SaveToSession(f, req.session_name, req.prompt, h.content,
                           req.model, h.tokens, t, fault)
    IN IF ~req.resolved \/ ~req.instance
       THEN [fs |-> f, ret |-> "error", session |-> None,
             content |-> <<>>, ran |-> FALSE]
       ELSE IF req.session_name # <<>> /\ req.has_store /\ h.content # <<>>
       THEN [fs |-> r.fs, ret |-> r.ret, session |-> r.session,
             content |-> h.content, ran |-> TRUE]
       ELSE [fs |-> f, ret |-> "ok", session |-> None,
             content |-> h.content, ran |-> FALSE]

----------------------------------------------------------------------------
(* Inputs *)

InputNames == {<<"a">>, <<"b", ":">>}
Models == {"m1"}
Providers == {"p1"}
Prompts == {<<"h">>}

TokenDicts == {EmptyDict, [total |-> 2]}

StreamRuns ==
    {[chunks |-> <<<<"x">>, <<"y">>>>, ending |-> "done"],
     [chunks |-> <<<<"x">>, <<"y">>>>, ending |-> "interrupt"],
     [chunks |-> <<>>, ending |-> "error"]}

Responses ==
    {None,
     [content |-> <<"x", "y">>,
      usage |-> [prompt_tokens |-> 1, completion_tokens |-> 2,
                 total_tokens |-> 3]],
     [content |-> <<>>, usage |-> [total_tokens |-> 1]]}

\* session names handed to a completion; <<>> is "no session name"
CompletionNames == {<<>>, <<"b", ":">>}

DefaultRun == [chunks |-> <<>>, ending |-> "error"]

Requests ==
    {[prompt |-> p, model |-> "m1", resolved |-> rs, instance |-> inst,
      stream |-> st, run |-> run, resp |-> resp, session_name |-> sn,
      has_store |-> hs] :
        p \in Prompts, rs \in BOOLEAN, inst \in BOOLEAN, st \in BOOLEAN,
        run \in StreamRuns, resp \in Responses,
        sn \in CompletionNames, hs \in BOOLEAN}

\* requests that differ where the call looks at them
UsedRequests ==
    {r \in Requests :
        /\ r.stream => r.resp = None
        /\ ~r.stream => r.run = DefaultRun
        /\ (~r.resolved \/ ~r.instance) =>
               /\ r.stream /\ r.run = DefaultRun
               /\ r.session_name = <<>> /\ ~r.has_store}

\* the values datetime.now() can return next
Clock == {t \in now..(now + 1) : t <= MaxTime}

----------------------------------------------------------------------------
(* The store and the router called one operation at a time *)

NoCall ==
    [op |-> "init", name |-> <<>>, name2 |-> <<>>, arg |-> None,
     ret |-> "ok", fault |-> "none", out |-> None, store |-> FALSE,
     ran |-> FALSE, had |-> FALSE, had2 |-> FALSE]

\* the call just made: its name argument, the Session it was given (arg),
\* the fault injected into its save, what it returned (ret), the Session
\* it produced (out) and whether the file of the sanitized name existed
\* when it was made (had; had2 for the new name of a rename).  name2 is the new name
\* of a rename and the content a completion returned; store and ran tell
\* whether a completion was given a SessionManager and reached its save
Call(op, name, arg, ret, fault, out) ==
    [op |-> op, name |-> name, name2 |-> <<>>, arg |-> arg, ret |-> ret,
     fault |-> fault.kind, out |-> out, store |-> FALSE, ran |-> FALSE,
     had |-> FsExists(fs, GetSessionPath(SanitizeName(name))),
     had2 |-> FALSE]

\* one save_session activation: the session name it read, its position, the
\* inode behind its open descriptor and the text it serialized
IdleFrame == [pc |-> "idle", name |-> <<>>, ino |-> 0, buf |-> <<>>]

\* thread 0 is the REPL's own thread, 1..MaxReplTurns the executor threads
Threads == 0..MaxReplTurns

\* what the REPL's last command did: the Session handed to save_session by
\* /save (s) and the name it had before (old), whether no other save was
\* running meanwhile (quiet), and what /export loaded
NoHist ==
    [cmd |-> "none", quiet |-> TRUE, s |-> None, old |-> <<>>,
     loaded |-> None]

ReplIdle ==
    /\ rpc = "off"
    /\ bg = [th \in Threads |-> IdleFrame]
    /\ hist = NoHist

\* no name has been sanitized yet
NoSanitize ==
    [op |-> "none", name |-> <<>>, ok |-> FALSE, out |-> <<>>,
     ok2 |-> FALSE, out2 |-> <<>>]

\* no path has been validated yet
NoValidation == [op |-> "none"]

\* no ProviderManager has been made
NoRegistry == [op |-> "none"]

\* no stream has been handled
NoStreaming == [op |-> "none"]

\* no non-streaming completion has been handled
NoNonStreaming == [op |-> "none"]

\* the sessions directory has not been listed, searched or cleaned
NoBrowse == [op |-> "none"]

\* no CacheManager has been made
NoCache == [op |-> "none"]

\* no model selection has been resolved
NoResolve == [op |-> "none"]

\* no ConfigManager is loaded
NoConfig == [op |-> "none"]

\* no selector is shown
NoSelector == [op |-> "none"]

\* no other component has been called
ExtIdle ==
    /\ san = NoSanitize
    /\ tree = <<>>
    /\ pval = NoValidation
    /\ procs = <<>>
    /\ reg = NoRegistry
    /\ strm = NoStreaming
    /\ nons = NoNonStreaming
    /\ brw = NoBrowse
    /\ cch = NoCache
    /\ rsv = NoResolve
    /\ cfg = NoConfig
    /\ sel = NoSelector

\* the session store alone, before any call
StoreIdle ==
    /\ fs = EmptyFs
    /\ now = 0
    /\ sess = None
    /\ last = NoCall
    /\ calls = 0
    /\ ReplIdle

Init == StoreIdle /\ ExtIdle

\* every call counts against the run's budget
Budget == /\ calls < MaxCalls /\ calls' = calls + 1

\* a killed process loses its Session object
Held(ret, s) == IF ret = "killed" THEN None ELSE s

DoCreateSession ==
    /\ Budget
    /\ \E name \in InputNames, m \in Models, pv \in Providers,
          t \in Clock, fault \in Faults(2) :
        LET r == CreateSession(fs, name, m, pv, now, t, fault)
        IN /\ fs' = r.fs
           /\ now' = t
           /\ sess' = IF r.ret = "ok" THEN r.session ELSE Held(r.ret, sess)
           /\ last' = Call("create", name, None, r.ret, fault, r.session)
           /\ UNCHANGED <<extVars, rpc, bg, hist>>

DoGetOrCreateSession ==
    /\ Budget
    /\ \E name \in InputNames, m \in Models, pv \in Providers,
          t \in Clock, fault \in Faults(2) :
        LET r == GetOrCreateSession(fs, name, m, pv, now, t, fault)
        IN /\ LoadSession(fs, name) # None => fault = NoFault /\ t = now
           /\ fs' = r.fs
           /\ now' = t
           /\ sess' = IF r.ret = "ok" THEN r.session ELSE Held(r.ret, sess)
           /\ last' = Call("get_or_create", name, None, r.ret, fault,
                           r.session)
           /\ UNCHANGED <<extVars, rpc, bg, hist>>

DoLoadSession ==
    /\ Budget
    /\ \E name \in InputNames :
        LET s == LoadSession(fs, name)
        IN /\ sess' = IF s # None THEN s ELSE sess
           /\ last' = Call("load", name, None,
                           IF s = None THEN "none" ELSE "ok", NoFault, s)
           /\ UNCHANGED <<extVars, fs, now, rpc, bg, hist>>

DoSaveSession ==
    /\ Budget
    /\ sess # None
    /\ \E t \in Clock, fault \in Faults(Len(sess.turns) + 2) :
        LET s == Touch(sess, t)
            r == SaveSession(fs, s, fault)
        IN /\ fs' = r.fs
           /\ now' = t
           /\ sess' = Held(r.ret, s)
           /\ last' = Call("save", sess.name, sess, r.ret, fault, s)
           /\ UNCHANGED <<extVars, rpc, bg, hist>>

DoAddTurn ==
    /\ Budget
    /\ sess # None
    /\ Len(sess.turns) < MaxTurns
    /\ \E c \in Prompts, tk \in TokenDicts, save \in BOOLEAN, t \in Clock,
          fault \in Faults(Len(sess.turns) + 3) :
        LET s1 == AddTurn(sess, Turn("user", c, sess.model, tk))
            s2 == IF save THEN Touch(s1, t) ELSE s1
            r == IF save THEN SaveSession(fs, s2, fault)
                 ELSE [fs |-> fs, ret |-> "ok"]
        IN /\ save \/ (fault = NoFault /\ t = now)
           /\ fs' = r.fs
           /\ now' = t
           /\ sess' = Held(r.ret, s2)
           /\ last' = Call(IF save THEN "add_turn_save" ELSE "add_turn",
                           sess.name, sess, r.ret, fault, s2)
           /\ UNCHANGED <<extVars, rpc, bg, hist>>

DoDeleteSession ==
    /\ Budget
    /\ \E name \in InputNames :
        LET r == DeleteSession(fs, name, {})
        IN /\ fs' = r.fs
           /\ last' = Call("delete", name, None, r.ret, NoFault, None)
           /\ UNCHANGED <<extVars, now, sess, rpc, bg, hist>>

DoRenameSession ==
    /\ Budget
    /\ \E old \in InputNames, new \in InputNames, t \in Clock,
          fault \in Faults(MaxTurns + 2) :
        LET r == RenameSession(fs, old, new, t, fault)
            reaches_save ==
                /\ FsExists(fs, GetSessionPath(SanitizeName(old)))
                /\ ~FsExists(fs, GetSessionPath(SanitizeName(new)))
                /\ LoadSession(fs, old) # None
        IN /\ ~reaches_save => fault = NoFault /\ t = now
           /\ fs' = r.fs
           /\ now' = t
           /\ sess' = Held(r.ret, sess)
           /\ last' = [Call("rename", old, None, r.ret, fault, None)
                          EXCEPT !.name2 = new,
                                 !.had2 = FsExists(fs, GetSessionPath(
                                                          SanitizeName(new)))]
           /\ UNCHANGED <<extVars, rpc, bg, hist>>

DoComplete ==
    /\ Budget
    /\ \E req \in UsedRequests, t \in Clock, fault \in Faults(MaxTurns + 2) :
        LET r == Complete(fs, req, t, fault)
            old == LoadSession(fs, req.session_name)
        IN /\ old # None => Len(old.turns) + 2 <= MaxTurns
           /\ ~r.ran => fault = NoFault /\ t = now
           /\ fs' = r.fs
           /\ now' = t
           /\ sess' = Held(r.ret, sess)
           /\ last' = [Call("complete", req.session_name, None, r.ret,
                            fault, r.session)
                          EXCEPT !.name2 = r.content,
                                 !.store = req.has_store,
                                 !.ran = r.ran]
           /\ UNCHANGED <<extVars, rpc, bg, hist>>

Next ==
    \/ DoCreateSession
    \/ DoGetOrCreateSession
    \/ DoLoadSession
    \/ DoSaveSession
    \/ DoAddTurn
    \/ DoDeleteSession
    \/ DoRenameSession
    \/ DoComplete

Spec == Init /\ [][Next]_vars

----------------------------------------------------------------------------
(* The chat REPL: repl_main, its commands and its background saves *)

ReplNames == {<<"a">>}
SaveArgs == {<<"b", ":">>}
ReplRuns == {[chunks |-> <<<<"x">>, <<"y">>>>, ending |-> "done"]}

ShellRequest ==
    [prompt |-> <<"h">>, model |-> "m1", resolved |-> TRUE,
     instance |-> TRUE, stream |-> FALSE, run |-> DefaultRun,
     resp |-> [content |-> <<"x", "y">>,
               usage |-> [prompt_tokens |-> 1, completion_tokens |-> 2,
                          total_tokens |-> 3]],
     session_name |-> <<"a">>, has_store |-> TRUE]

\* inodes behind the descriptors that save_session activations hold open
OpenInos(b) ==
    {b[th].ino : th \in {x \in Threads : b[x].pc \in {"dump", "write"}}}

Finished(frame) == frame.pc \in {"idle", "ok", "raised"}

\* cli/core.py handle_prompt with --session and --no-stream, run before the
\* REPL is started
ShellPrompt ==
    /\ rpc = "off"
    /\ LET req == ShellRequest
           g == GetOrCreateSession(fs, req.session_name, req.model, "p1",
                                   now, now, NoFault)
           r == Complete(g.fs, req, now, NoFault)
       IN /\ Len(g.session.turns) + 2 <= MaxTurns
          /\ fs' = r.fs
    /\ UNCHANGED <<extVars, now, sess, last, rpc, bg, hist, calls>>

\* repl_main lines 77-98: the session is loaded or created, a temporary
\* one when no name was given.  The sweep of SessionManager.__init__ finds
\* no temporary session older than a day within one run of the clock.
ReplStart ==
    /\ rpc = "off"
    /\ \E name \in ReplNames \cup {<<>>} :
        LET g == IF name # <<>>
                 THEN GetOrCreateSession(fs, name, "m1", "p1", now, now,
                                         NoFault)
                 ELSE GetTempSession(fs, "m1", "p1", now, now, NoFault)
        IN /\ fs' = g.fs
           /\ sess' = g.session
    /\ rpc' = "prompt"
    /\ UNCHANGED <<extVars, now, last, bg, hist, calls>>

\* repl_main lines 129-192: one exchange; both turns are appended and the
\* save is handed to an executor thread
ReplTurn ==
    /\ rpc = "prompt"
    /\ \E th \in Threads \ {0}, run \in ReplRuns, p \in Prompts :
        LET h == HandleStreaming(run)
            user_turn == Turn("user", p, sess.model, EmptyDict)
            assistant_turn == Turn("assistant", h.content, sess.model,
                                   h.tokens)
        IN /\ bg[th].pc = "idle"
           /\ \A x \in 1..(th - 1) : bg[x].pc # "idle"
           /\ sess' = [sess EXCEPT !.turns = @ \o <<user_turn, assistant_turn>>]
           /\ bg' = [bg EXCEPT ![th] = [IdleFrame EXCEPT !.pc = "start"]]
    /\ hist' = [NoHist EXCEPT !.cmd = "turn"]
    /\ UNCHANGED <<extVars, fs, now, last, rpc, calls>>

\* every REPL command counts against the run's budget
CmdBudget == /\ calls < MaxReplCmds /\ calls' = calls + 1

\* handle_repl_command "/clear"
ReplClear ==
    /\ rpc = "prompt"
    /\ CmdBudget
    /\ sess' = [sess EXCEPT !.turns = <<>>]
    /\ hist' = [NoHist EXCEPT !.cmd = "clear"]
    /\ UNCHANGED <<extVars, fs, now, last, rpc, bg>>

\* handle_repl_command "/save <name>", up to the call of save_session
ReplSave ==
    /\ rpc = "prompt"
    /\ CmdBudget
    /\ \E args \in SaveArgs :
        /\ sess' = [sess EXCEPT !.name = args]
        /\ hist' = [cmd |-> "save",
                    quiet |-> \A th \in Threads : Finished(bg[th]),
                    s |-> [sess EXCEPT !.name = args], old |-> sess.name,
                    loaded |-> None]
    /\ bg' = [bg EXCEPT ![0] = [IdleFrame EXCEPT !.pc = "start"]]
    /\ rpc' = "save_cmd"
    /\ UNCHANGED <<extVars, fs, now, last>>

\* "/save <name>" after save_session returned or raised: the file of a
\* temporary session is deleted; a raised error is reported by the loop's
\* handler, and the loop goes on
ReplSaveReturn ==
    /\ rpc = "save_cmd"
    /\ bg[0].pc \in {"ok", "raised"}
    /\ hist' = [hist EXCEPT
                    !.cmd = IF bg[0].pc = "ok" THEN "saved" ELSE "save_failed",
                    !.quiet = @ /\ \A th \in Threads : Finished(bg[th])]
    /\ fs' = IF bg[0].pc = "ok" /\ IsTempName(hist.old)
             THEN DeleteSession(fs, hist.old, OpenInos(bg)).fs
             ELSE fs
    /\ bg' = [bg EXCEPT ![0] = IdleFrame]
    /\ rpc' = "prompt"
    /\ UNCHANGED <<extVars, now, sess, last, calls>>

\* handle_repl_command "/export": export_session loads the session by name
ReplExport ==
    /\ rpc = "prompt"
    /\ CmdBudget
    /\ hist' = [cmd |-> IF hist.cmd = "saved" /\ hist.quiet
                        THEN "save_export" ELSE "export",
                quiet |-> TRUE, s |-> hist.s, old |-> <<>>,
                loaded |-> LoadSession(fs, sess.name)]
    /\ UNCHANGED <<extVars, fs, now, sess, last, rpc, bg>>

\* "/exit", "/quit" or end of input: the loop is left for the final save
ReplExit ==
    /\ rpc = "prompt"
    /\ bg' = [bg EXCEPT ![0] = [IdleFrame EXCEPT !.pc = "start"]]
    /\ rpc' = "final"
    /\ hist' = [NoHist EXCEPT !.cmd = "exit"]
    /\ UNCHANGED <<extVars, fs, now, sess, last, calls>>

\* repl_main lines 205-209: the final save returned, or raised and was logged
ReplFinalReturn ==
    /\ rpc = "final"
    /\ bg[0].pc \in {"ok", "raised"}
    /\ rpc' = "done"
    /\ UNCHANGED <<extVars, fs, now, sess, last, bg, hist, calls>>

\* save_session lines 115-121: updated_at is set on the shared Session, the
\* paths are computed from its name and the temp file is opened for writing
SaveOpen(th) ==
    /\ bg[th].pc = "start"
    /\ \E t \in Clock :
        LET tmp == TmpPath(GetSessionPath(sess.name))
            o == FsOpenW(fs, tmp, OpenInos(bg))
        IN /\ now' = t
           /\ sess' = Touch(sess, t)
           /\ IF DirPart(tmp) \in ExistingDirs
              THEN /\ fs' = o.fs
                   /\ bg' = [bg EXCEPT ![th] =
                                [pc |-> "dump", name |-> sess.name,
                                 ino |-> o.ino, buf |-> <<>>]]
              ELSE /\ fs' = fs
                   /\ bg' = [bg EXCEPT ![th] =
                                [pc |-> "cleanup", name |-> sess.name,
                                 ino |-> 0, buf |-> <<>>]]
    /\ UNCHANGED <<extVars, last, rpc, hist, calls>>

\* save_session line 122, the argument: the shared Session is serialized
SaveDump(th) ==
    /\ bg[th].pc = "dump"
    /\ bg' = [bg EXCEPT ![th].pc = "write", ![th].buf = DumpJson(sess)]
    /\ UNCHANGED <<extVars, fs, now, sess, last, rpc, hist, calls>>

\* save_session lines 121-122: the text is written through the descriptor,
\* which is then closed
SaveWrite(th) ==
    /\ bg[th].pc = "write"
    /\ bg' = [bg EXCEPT ![th].pc = "replace", ![th].ino = 0, ![th].buf = <<>>]
    /\ fs' = FsGc(FsWriteAt(fs, bg[th].ino, 0, bg[th].buf), OpenInos(bg'))
    /\ UNCHANGED <<extVars, now, sess, last, rpc, hist, calls>>

\* save_session line 125: tmp_path.replace(session_path); it raises
\* FileNotFoundError when the temp name is gone
SaveReplace(th) ==
    /\ bg[th].pc = "replace"
    /\ LET path == GetSessionPath(bg[th].name)
           tmp == TmpPath(path)
       IN IF FsExists(fs, tmp)
          THEN /\ fs' = FsReplace(fs, tmp, path, OpenInos(bg))
               /\ bg' = [bg EXCEPT ![th].pc = "ok"]
          ELSE /\ fs' = fs
               /\ bg' = [bg EXCEPT ![th].pc = "cleanup"]
    /\ UNCHANGED <<extVars, now, sess, last, rpc, hist, calls>>

\* save_session lines 127-132: the temp file is removed if there is one and
\* the error is raised again
SaveCleanup(th) ==
    /\ bg[th].pc = "cleanup"
    /\ LET tmp == TmpPath(GetSessionPath(bg[th].name))
       IN fs' = IF FsExists(fs, tmp) THEN FsUnlink(fs, tmp, OpenInos(bg))
                ELSE fs
    /\ bg' = [bg EXCEPT ![th].pc = "raised"]
    /\ UNCHANGED <<extVars, now, sess, last, rpc, hist, calls>>

InitRepl == Init

NextRepl ==
    \/ ShellPrompt
    \/ ReplStart
    \/ ReplTurn
    \/ ReplClear
    \/ ReplSave
    \/ ReplSaveReturn
    \/ ReplExport
    \/ ReplExit
    \/ ReplFinalReturn
    \/ \E th \in Threads : SaveOpen(th)
    \/ \E th \in Threads : SaveDump(th)
    \/ \E th \in Threads : SaveWrite(th)
    \/ \E th \in Threads : SaveReplace(th)
    \/ \E th \in Threads : SaveCleanup(th)

SpecRepl == InitRepl /\ [][NextRepl]_vars

----------------------------------------------------------------------------
(* Properties *)

SavePath(name) == GetSessionPath(SanitizeName(name))

\* the file at path p holds in g what it held in f
SameFile(f, g, p) == FsExists(g, p) /\ FsRead(g, p) = FsRead(f, p)

RECURSIVE SumTotal(_)
SumTotal(turns) ==
    IF turns = <<>> THEN 0
    ELSE DictGet(Head(turns).tokens, "total", 0) + SumTotal(Tail(turns))

EqualButUpdatedAt(a, b) ==
    [a EXCEPT !.updated_at = 0] = [b EXCEPT !.updated_at = 0]

\* C1: a save_session call that raises or is interrupted before its rename
\* leaves a session file that existed for that name exactly as it was.
C1_SaveFailureKeepsFile ==
    [][(/\ last'.op \in {"save", "add_turn_save"}
        /\ last'.ret \in {"raised", "killed"}
        /\ FsExists(fs, GetSessionPath(last'.arg.name)))
       => SameFile(fs, fs', GetSessionPath(last'.arg.name))]_vars

\* a save of a session whose file existed was interrupted after a partial
\* write: the temp file is there, and so is the session file
C1_Witness ==
    /\ last.op = "save"
    /\ last.ret = "killed"
    /\ last.had
    /\ FsExists(fs, GetSessionPath(last.arg.name))
    /\ FsExists(fs, TmpPath(GetSessionPath(last.arg.name)))
    /\ Len(FsRead(fs, TmpPath(GetSessionPath(last.arg.name)))) = 1

\* C2: after /save <name> succeeded, loading the session by its name gives
\* back the session that was saved, up to a later-or-equal updated_at.
C2_SaveLoadRoundTrip ==
    hist.cmd = "save_export"
    => /\ hist.loaded # None
       /\ EqualButUpdatedAt(hist.loaded, hist.s)
       /\ hist.loaded.updated_at >= hist.s.updated_at

\* C3: the Session object's total_tokens is the sum of its turns' "total"
\* token counts, and so is that of every readable session file.
C3_TotalTokensIsSum ==
    /\ sess # None => sess.total_tokens = SumTotal(sess.turns)
    /\ \A p \in DOMAIN fs.dir :
          ValidateJson(FsRead(fs, p)) # None =>
              ValidateJson(FsRead(fs, p)).total_tokens
                  = SumTotal(ValidateJson(FsRead(fs, p)).turns)

\* C4: once the REPL has left its final save and every background save has
\* ended, the session's file parses and ends with the Session's turns.
C4_FinalSaveDurable ==
    (/\ rpc = "done"
     /\ \A th \in Threads : Finished(bg[th])
     /\ SanitizeName(sess.name) = sess.name)
    => /\ FsExists(fs, GetSessionPath(sess.name))
       /\ LET d == ValidateJson(FsRead(fs, GetSessionPath(sess.name)))
              n == Len(sess.turns)
          IN /\ d # None
             /\ Len(d.turns) >= n
             /\ SubSeq(d.turns, Len(d.turns) - n + 1, Len(d.turns))
                    = sess.turns

\* C5: when the write or the rename inside save_session fails, the error is
\* raised to the caller and the temp file is gone.
C5_FailedSaveCleansUp ==
    (/\ last.op \in {"save", "add_turn_save"}
     /\ last.fault \in {"write", "replace"})
    => /\ last.ret = "raised"
       /\ ~FsExists(fs, TmpPath(GetSessionPath(last.arg.name)))

\* a save whose rename failed, for a session that has a file
C5_Witness ==
    /\ last.op = "save"
    /\ last.fault = "replace"
    /\ last.ret = "raised"
    /\ last.had

\* C6 as claimed: create_session leaves an existing file of the sanitized
\* name as it was.
C6_CreateOverwritesNothing ==
    [][(last'.op = "create" /\ FsExists(fs, SavePath(last'.name)))
       => SameFile(fs, fs', SavePath(last'.name))]_vars

\* C6 amended: a create_session that returns has written the new, empty
\* session to the file of the sanitized name, whether or not that file
\* existed, and has left every other session file as it was.
C6_CreateReplacesOnlyItsFile ==
    [][(last'.op = "create" /\ last'.ret = "ok")
       => /\ last'.out.name = SanitizeName(last'.name)
          /\ last'.out.turns = <<>>
          /\ FsExists(fs', SavePath(last'.name))
          /\ FsRead(fs', SavePath(last'.name)) = DumpJson(last'.out)
          /\ \A q \in DOMAIN fs.dir :
                q \notin {SavePath(last'.name), TmpPath(SavePath(last'.name))}
                => SameFile(fs, fs', q)]_vars

\* create_session returned for a name whose file existed
C6_Witness ==
    /\ last.op = "create"
    /\ last.ret = "ok"
    /\ last.had
    /\ ValidateJson(FsRead(fs, SavePath(last.name))).turns = <<>>

\* C7: rename_session returns False when the old name has no file or the new
\* name has one, and then no file is created, removed or changed.
C7_RenameRefuses ==
    [][(/\ last'.op = "rename"
        /\ \/ ~FsExists(fs, SavePath(last'.name))
           \/ FsExists(fs, SavePath(last'.name2)))
       => /\ last'.ret = "false"
          /\ fs' = fs]_vars

\* a rename onto a different name that has a file was refused
C7_Witness ==
    /\ last.op = "rename"
    /\ last.had
    /\ last.had2
    /\ SavePath(last.name) # SavePath(last.name2)
    /\ last.ret = "false"
    /\ FsExists(fs, SavePath(last.name))
    /\ FsExists(fs, SavePath(last.name2))

\* C8: after the completion's session side effect has run, the session file
\* is as before or holds the old turns followed by the user turn and the
\* assistant turn; it never ends with the user turn alone.
C8_TurnPairAtomic ==
    [][(last'.op = "complete" /\ last'.ran)
       => LET p == SavePath(last'.name)
          IN IF ~FsExists(fs, p) THEN ~FsExists(fs', p)
             ELSE /\ FsExists(fs', p)
                  /\ \/ FsRead(fs', p) = FsRead(fs, p)
                     \/ LET old == ValidateJson(FsRead(fs, p))
                            new == ValidateJson(FsRead(fs', p))
                            n == Len(old.turns)
                        IN /\ old # None
                           /\ new # None
                           /\ Len(new.turns) = n + 2
                           /\ SubSeq(new.turns, 1, n) = old.turns
                           /\ new.turns[n + 1].role = "user"
                           /\ new.turns[n + 1].content \in Prompts
                           /\ new.turns[n + 2].role = "assistant"
                           /\ new.turns[n + 2].content = last'.name2]_vars

\* the side effect ran on an existing session and its save failed
C8_Witness ==
    /\ last.op = "complete"
    /\ last.ran
    /\ last.had
    /\ last.ret = "logged"
    /\ last.fault = "replace"

\* C9: a completion given no session name, no SessionManager or producing
\* empty content changes no file and no Session object.
C9_NoContentNoSessionChange ==
    [][(/\ last'.op = "complete"
        /\ ~(last'.name # <<>> /\ last'.store /\ last'.name2 # <<>>))
       => /\ fs' = fs
          /\ sess' = sess
          /\ last'.out = None]_vars

\* a completion with a session name and a SessionManager, on an existing
\* session, that produced empty content
C9_Witness ==
    /\ last.op = "complete"
    /\ last.name # <<>>
    /\ last.store
    /\ last.had
    /\ last.name2 = <<>>
    /\ last.ret = "ok"

TempNames == {TempPrefix \o <<Digits[t + 1]>> : t \in 0..9}

\* C10: every file in or under the sessions directory is "<sanitized>.json"
\* for a name given to the store, or the ".tmp" sibling of that file, and
\* lies directly in the directory.
C10_FilesAreSanitizedNames ==
    \A p \in DOMAIN fs.dir :
        /\ \A i \in 1..Len(p) : p[i] # "/"
        /\ \E n \in InputNames \cup ReplNames \cup SaveArgs \cup TempNames :
              p \in {SavePath(n), TmpPath(SavePath(n))}

----------------------------------------------------------------------------
(* Prompt names: PromptManager._sanitize_name.  A name is a sequence of    *)
(* one-character strings; "NUL" is the null character and "U+2215",        *)
(* "U+FF0F", "U+FF3C" are the division slash and the fullwidth slashes.     *)

MaxPieces == 3        \* pieces a sanitizer input is put together from

NameLimit == 255

\* the prompt storage directory, resolved, as path components
StoragePath == <<<<"h">>, <<"p">>>>

\* what "%XY" stands for; a pair that is not two hex digits stands for
\* nothing, and a byte outside the table is a character "?" of no use in
\* a name
HexDigits == {"0", "2", "3", "5", "a", "c", "e", "f"}

HexPair(x, y) ==
    CASE x = "2" /\ y = "e" -> "."
      [] x = "2" /\ y = "f" -> "/"
      [] x = "5" /\ y = "c" -> "\\"
      [] x = "3" /\ y = "a" -> ":"
      [] x = "0" /\ y = "0" -> "NUL"
      [] x = "2" /\ y = "5" -> "%"
      [] x = "2" /\ y = "0" -> " "
      [] OTHER -> "?"

\* urllib.parse.unquote: one pass over the string, left to right
RECURSIVE Unquote(_)
Unquote(s) ==
    IF s = <<>> THEN <<>>
    ELSE IF /\ s[1] = "%"
            /\ Len(s) >= 3
            /\ s[2] \in HexDigits
            /\ s[3] \in HexDigits
    THEN <<HexPair(s[2], s[3])>> \o Unquote(SubSeq(s, 4, Len(s)))
    ELSE <<s[1]>> \o Unquote(Tail(s))

\* lines 43-47: at most two passes of unquote
UnquoteTwice(s) == IF Unquote(s) = s THEN s ELSE Unquote(Unquote(s))

\* lines 50-51: null bytes are dropped, look-alike separators normalised
RECURSIVE NormalizeSeparators(_)
NormalizeSeparators(s) ==
    IF s = <<>> THEN <<>>
    ELSE IF s[1] = "NUL" THEN NormalizeSeparators(Tail(s))
    ELSE IF s[1] \in {"U+2215", "U+FF0F"}
    THEN <<"/">> \o NormalizeSeparators(Tail(s))
    ELSE IF s[1] = "U+FF3C"
    THEN <<"\\">> \o NormalizeSeparators(Tail(s))
    ELSE <<s[1]>> \o NormalizeSeparators(Tail(s))

\* line 54: name.lstrip(".\\/")
RECURSIVE LStripMarkers(_)
LStripMarkers(s) ==
    IF s # <<>> /\ s[1] \in {".", "\\", "/"}
    THEN LStripMarkers(Tail(s))
    ELSE s

HasDotDot(s) == \E i \in 1..(Len(s) - 1) : s[i] = "." /\ s[i + 1] = "."

\* str.replace("..", "__"): non-overlapping matches, left to right
RECURSIVE ReplaceDotDot(_)
ReplaceDotDot(s) ==
    IF Len(s) < 2 THEN s
    ELSE IF s[1] = "." /\ s[2] = "."
    THEN <<"_", "_">> \o ReplaceDotDot(SubSeq(s, 3, Len(s)))
    ELSE <<s[1]>> \o ReplaceDotDot(Tail(s))

\* lines 57-58: while ".." in name
RECURSIVE RemoveTraversal(_)
RemoveTraversal(s) ==
    IF HasDotDot(s) THEN RemoveTraversal(ReplaceDotDot(s)) ELSE s

\* the characters [a-zA-Z0-9._-] that occur in the inputs
NameChars == HexDigits \cup {"C", ".", "_", "-"}

\* a substitution that lets every character through
ReplaceInvalidKeep(s) == s

\* line 61: re.sub(r"[^a-zA-Z0-9._-]", "_", name)
ReplaceInvalid(s) ==
    [i \in 1..Len(s) |-> IF s[i] \in NameChars THEN s[i] ELSE "_"]

\* Path components of a string: split at "/"
RECURSIVE SplitPath(_, _)
SplitPath(s, cur) ==
    IF s = <<>> THEN <<cur>>
    ELSE IF s[1] = "/" THEN <<cur>> \o SplitPath(Tail(s), <<>>)
    ELSE SplitPath(Tail(s), cur \o <<s[1]>>)

\* Path.resolve() over a directory without symbolic links: empty and "."
\* components are dropped, ".." steps up (the root is its own parent)
RECURSIVE Normalize(_, _)
Normalize(parts, acc) ==
    IF parts = <<>> THEN acc
    ELSE IF Head(parts) \in {<<>>, <<".">>} THEN Normalize(Tail(parts), acc)
    ELSE IF Head(parts) = <<".", ".">>
    THEN Normalize(Tail(parts),
                   IF acc = <<>> THEN acc
                   ELSE SubSeq(acc, 1, Len(acc) - 1))
    ELSE Normalize(Tail(parts), acc \o <<Head(parts)>>)

\* (storage_path / file).resolve(): an absolute file replaces storage_path
ResolveInStorage(file) ==
    IF file # <<>> /\ file[1] = "/"
    THEN Normalize(SplitPath(file, <<>>), <<>>)
    ELSE Normalize(SplitPath(file, <<>>), StoragePath)

\* test_path.relative_to(storage_path) does not raise
InsideStorage(path) ==
    /\ Len(path) >= Len(StoragePath)
    /\ SubSeq(path, 1, Len(StoragePath)) = StoragePath

PromptFile(name) == name \o <<".", "m", "d">>

Rejected == [ok |-> FALSE, out |-> <<>>]

\* PromptManager._sanitize_name; ok is FALSE when it raises
PromptSanitizeName(name) ==
    IF name = <<>> THEN Rejected
    ELSE LET stripped == Strip(name)
             decoded == NormalizeSeparators(UnquoteTwice(stripped))
             rooted == Strip(LStripMarkers(decoded))
             sanitized == ReplaceInvalid(RemoveTraversal(rooted))
         IN IF stripped = <<>> THEN Rejected
            ELSE IF sanitized = <<>> THEN Rejected
            ELSE IF ~InsideStorage(ResolveInStorage(PromptFile(sanitized)))
            THEN Rejected
            ELSE [ok |-> TRUE,
                  out |-> SubSeq(sanitized, 1, Min(Len(sanitized), NameLimit))]

\* the pieces names are put together from: path markers, separators, a
\* drive letter, blanks, and percent-encoded forms, once, twice and three
\* times encoded
NamePieces ==
    {<<".">>, <<"/">>, <<"\\">>, <<":">>, <<"NUL">>, <<" ">>, <<"a">>,
     <<"C">>, <<"U+2215">>, <<"U+FF3C">>,
     <<"%", "2", "e">>, <<"%", "2", "f">>, <<"%", "5", "c">>,
     <<"%", "0", "0">>, <<"%", "2", "5", "2", "e">>,
     <<"%", "2", "5", "2", "5", "2", "e">>}

RECURSIVE NamesOf(_)
NamesOf(n) ==
    IF n = 0 THEN {<<>>}
    ELSE LET shorter == NamesOf(n - 1)
         IN shorter \cup {x \o p : x \in shorter, p \in NamePieces}

NameInputs == NamesOf(MaxPieces)

\* a call of PromptManager._sanitize_name, and of it again on its result
SanitizePromptName ==
    /\ san.op = "input"
    /\ LET r == PromptSanitizeName(san.name)
           r2 == IF r.ok THEN PromptSanitizeName(r.out) ELSE Rejected
       IN san' = [op |-> "prompt", name |-> san.name, ok |-> r.ok,
                  out |-> r.out, ok2 |-> r2.ok, out2 |-> r2.out]
    /\ UNCHANGED besideNames

\* a call of SessionManager._sanitize_name, and of it again on its result
SanitizeSessionName ==
    /\ san.op = "input"
    /\ san' = [op |-> "session", name |-> san.name, ok |-> TRUE,
               out |-> SanitizeName(san.name), ok2 |-> TRUE,
               out2 |-> SanitizeName(SanitizeName(san.name))]
    /\ UNCHANGED besideNames

\* a name is about to be handed to a sanitizer
InitNames ==
    /\ StoreIdle
    /\ sel = NoSelector
    /\ cfg = NoConfig
    /\ rsv = NoResolve
    /\ cch = NoCache
    /\ brw = NoBrowse
    /\ nons = NoNonStreaming
    /\ tree = <<>>
    /\ pval = NoValidation
    /\ procs = <<>>
    /\ reg = NoRegistry
    /\ strm = NoStreaming
    /\ \E name \in NameInputs :
          san = [NoSanitize EXCEPT !.op = "input", !.name = name]

NextNames ==
    \/ SanitizePromptName
    \/ SanitizeSessionName

SpecNames == InitNames /\ [][NextNames]_vars

\* C11: an accepted prompt name comes back without "..", "/", "\", ":" and
\* the null character, and "<sanitized>.md" resolves to a path inside the
\* prompt storage directory.
C11_PromptNameStaysInside ==
    (san.op = "prompt" /\ san.ok)
    => /\ ~HasDotDot(san.out)
       /\ \A i \in 1..Len(san.out) : san.out[i] \notin {"/", "\\", ":", "NUL"}
       /\ InsideStorage(ResolveInStorage(PromptFile(san.out)))

\* a drive letter followed by an encoded separator was accepted
C11_Witness ==
    /\ san.op = "prompt"
    /\ san.ok
    /\ san.name = <<"C", ":", "%", "2", "f">>
    /\ san.out = <<"C", "_", "_">>

\* C12: sanitizing a sanitized name is accepted and changes nothing, for
\* prompt names and for session names.
C12_SanitizeIdempotent ==
    (san.op \in {"prompt", "session"} /\ san.ok)
    => /\ san.ok2
       /\ san.out2 = san.out

\* C26: a prompt name that is empty after stripping, or that holds no
\* character of [A-Za-z0-9._-], is rejected with PromptSecurityError: no
\* name is returned for it.
C26_AllInvalidNameRejected ==
    (/\ san.op = "prompt"
     /\ \/ Strip(san.name) = <<>>
        \/ \A i \in 1..Len(san.name) : san.name[i] \notin NameChars)
    => ~san.ok

----------------------------------------------------------------------------
(* Path security: utils/path_security.py over a tree of files, directories *)
(* and symbolic links.  A path is a sequence of components, a component a  *)
(* sequence of characters; a path string is split at "/".                  *)

MaxLinks == 3         \* symbolic links followed while resolving one path

\* the working directory /w and a directory /o beside it
Cwd == <<<<"w">>>>

DotEnv == <<".", "e", "n", "v">>
DotSsh == <<".", "s", "s", "h">>
SPem == <<"s", ".", "P", "E", "M">>

\* a text file; open() raises PermissionError unless it is readable
File(readable) == [kind |-> "file", target |-> <<>>, readable |-> readable]

Dir == [kind |-> "dir", target |-> <<>>, readable |-> TRUE]

Link(target) == [kind |-> "link", target |-> target, readable |-> TRUE]

\* what a symbolic link /w/l can point at: a file or the directory outside
\* the working directory, by an absolute or a relative target, a file
\* inside, or itself
LinkTargets ==
    {<<"/", "o", "/", "s">>, <<"/", "o">>, <<".", ".", "/", "o", "/", "s">>,
     <<"a">>, DotEnv, <<"l">>}

\* the tree: /w/a, /w/.env, /w/.ssh/k, /w/d/f, /w/d/s.PEM, /w/d/.h, /o/s,
\* with the file at path locked unreadable and the link /w/l, if any
TreeOf(locked, link) ==
    LET paths == {<<<<"w">>>>, <<<<"o">>>>, <<<<"w">>, <<"a">>>>,
                  <<<<"w">>, DotEnv>>, <<<<"w">>, DotSsh>>,
                  <<<<"w">>, DotSsh, <<"k">>>>, <<<<"w">>, <<"d">>>>,
                  <<<<"w">>, <<"d">>, <<"f">>>>, <<<<"w">>, <<"d">>, SPem>>,
                  <<<<"w">>, <<"d">>, <<".", "h">>>>,
                  <<<<"o">>, <<"s">>>>}
                 \cup (IF link = <<>> THEN {} ELSE {<<<<"w">>, <<"l">>>>})
        dirs == {<<<<"w">>>>, <<<<"o">>>>, <<<<"w">>, DotSsh>>,
                 <<<<"w">>, <<"d">>>>}
    IN [q \in paths |->
           IF q = <<<<"w">>, <<"l">>>> THEN Link(link)
           ELSE IF q \in dirs THEN Dir
           ELSE File(q # locked)]

Root == <<>>

\* path.exists() of a resolved path
PathExists(t, path) == path = Root \/ path \in DOMAIN t

IsAbsolute(str) == str # <<>> /\ str[1] = "/"

\* path.is_relative_to(base)
IsRelativeTo(path, base) ==
    Len(path) >= Len(base) /\ SubSeq(path, 1, Len(base)) = base

\* Path.resolve(): components from left to right; a symbolic link is
\* replaced by its target before a following ".." is applied; names that
\* do not exist are kept.  At a link that loops, realpath keeps the link,
\* appends what is left and normalises the names as they stand; resolve
\* raises RuntimeError if the result still leads through the link.
RECURSIVE ResolveParts(_, _, _, _)
ResolveParts(t, parts, acc, fuel) ==
    IF parts = <<>> THEN [ok |-> TRUE, path |-> acc]
    ELSE IF Head(parts) \in {<<>>, <<".">>}
    THEN ResolveParts(t, Tail(parts), acc, fuel)
    ELSE IF Head(parts) = <<".", ".">>
    THEN ResolveParts(t, Tail(parts),
                      IF acc = Root THEN acc
                      ELSE SubSeq(acc, 1, Len(acc) - 1), fuel)
    ELSE LET cand == acc \o <<Head(parts)>>
         IN IF cand \in DOMAIN t /\ t[cand].kind = "link"
            THEN IF fuel = 0
                 THEN LET kept == Normalize(Tail(parts), cand)
                      IN [ok |-> ~IsRelativeTo(kept, cand), path |-> kept]
                 ELSE ResolveParts(t,
                          SplitPath(t[cand].target, <<>>) \o Tail(parts),
                          IF IsAbsolute(t[cand].target) THEN Root ELSE acc,
                          fuel - 1)
            ELSE ResolveParts(t, Tail(parts), cand, fuel)

\* a resolve that takes every name as it stands, following no link
ResolveLexical(t, str) ==
    [ok |-> TRUE,
     path |-> Normalize(SplitPath(str, <<>>),
                        IF IsAbsolute(str) THEN Root ELSE Cwd)]

\* Path(str).resolve() in the working directory
Resolve(t, str) ==
    ResolveParts(t, SplitPath(str, <<>>),
                 IF IsAbsolute(str) THEN Root ELSE Cwd, MaxLinks)

\* re.IGNORECASE over the letters that occur
Lower(c) ==
    CASE c = "E" -> "e" [] c = "M" -> "m" [] c = "P" -> "p"
      [] c = "K" -> "k" [] c = "Y" -> "y" [] OTHER -> c

LowerAll(name) == [i \in 1..Len(name) |-> Lower(name[i])]

StartsWith(name, prefix) ==
    Len(name) >= Len(prefix) /\ SubSeq(name, 1, Len(prefix)) = prefix

EndsWith(name, suffix) ==
    /\ Len(name) >= Len(suffix)
    /\ SubSeq(name, Len(name) - Len(suffix) + 1, Len(name)) = suffix

\* SENSITIVE_PATTERNS that re.match tries at the start of the file name and
\* that do not end in "$": each matches a name that starts with it
SensitivePrefixes ==
    {<<".", "e", "n", "v">>,
     <<"i", "d", "_", "r", "s", "a">>,
     <<"i", "d", "_", "d", "s", "a">>,
     <<"i", "d", "_", "e", "c", "d", "s", "a">>,
     <<"i", "d", "_", "e", "d", "2", "5", "5", "1", "9">>,
     <<".", "a", "w", "s", "/", "c", "r", "e", "d", "e", "n", "t", "i", "a",
       "l", "s">>,
     <<".", "k", "u", "b", "e", "/", "c", "o", "n", "f", "i", "g">>,
     <<"c", "r", "e", "d", "e", "n", "t", "i", "a", "l", "s", ".", "j", "s",
       "o", "n">>,
     <<"s", "e", "c", "r", "e", "t", "s", ".", "y", "a", "m", "l">>,
     <<"s", "e", "c", "r", "e", "t", "s", ".", "y", "m", "l">>,
     <<".", "n", "p", "m", "r", "c">>,
     <<".", "p", "y", "p", "i", "r", "c">>,
     <<".", "n", "e", "t", "r", "c">>,
     <<".", "d", "o", "c", "k", "e", "r", "c", "f", "g">>,
     <<".", "d", "o", "c", "k", "e", "r", "/", "c", "o", "n", "f", "i", "g",
       ".", "j", "s", "o", "n">>}

\* SENSITIVE_PATTERNS of the form ".*\.xyz$"
SensitiveSuffixes ==
    {<<".", "p", "e", "m">>, <<".", "k", "e", "y">>, <<".", "p", "1", "2">>,
     <<".", "p", "f", "x">>}

\* SENSITIVE_DIRS
SensitiveDirs ==
    {<<".", "s", "s", "h">>, <<".", "a", "w", "s">>,
     <<".", "k", "u", "b", "e">>, <<".", "g", "n", "u", "p", "g">>,
     <<".", "d", "o", "c", "k", "e", "r">>}

\* path.name
PathName(path) == IF path = Root THEN <<>> ELSE path[Len(path)]

\* is_sensitive_path
IsSensitivePath(path) ==
    \/ \E i \in 1..Len(path) : path[i] \in SensitiveDirs
    \/ \E x \in SensitivePrefixes : StartsWith(LowerAll(PathName(path)), x)
    \/ \E x \in SensitiveSuffixes : EndsWith(LowerAll(PathName(path)), x)

\* a FileAccessError: its kind, the file its message names and whether the
\* message mentions --allow-sensitive
Failure(err, names, hint) ==
    [ok |-> FALSE, path |-> Root, err |-> err, names |-> names,
     hint |-> hint, asked |-> err = "declined"]

NoBase == <<"none">>

\* validate_file_path where --allow-sensitive has no effect
ValidateFilePathStrict(t, path_str, base_dir, allow_sensitive, interactive, tty, confirm) ==
    LET r == Resolve(t, path_str)
        base == Resolve(t, base_dir)
        sensitive == IsSensitivePath(r.path)
        prompts == sensitive /\ interactive /\ tty
    IN IF ~r.ok THEN Failure("invalid", path_str, FALSE)
       ELSE IF ~PathExists(t, r.path)
       THEN Failure("not_found", path_str, FALSE)
       ELSE IF base_dir # NoBase /\ ~IsRelativeTo(r.path, base.path)
       THEN Failure("outside", path_str, FALSE)
       ELSE IF prompts /\ ~confirm
       THEN Failure("declined", PathName(r.path), FALSE)
       ELSE IF sensitive /\ ~prompts
       THEN Failure("blocked", PathName(r.path), TRUE)
       ELSE [ok |-> TRUE, path |-> r.path, err |-> "none", names |-> <<>>,
             hint |-> FALSE, asked |-> prompts]

\* validate_file_path; confirm is the answer to "Include this file?"
ValidateFilePath(t, path_str, base_dir, allow_sensitive, interactive, tty, confirm) ==
    LET r == Resolve(t, path_str)
        base == Resolve(t, base_dir)
        sensitive == ~allow_sensitive /\ IsSensitivePath(r.path)
        prompts == sensitive /\ interactive /\ tty
    IN IF ~r.ok THEN Failure("invalid", path_str, FALSE)
       ELSE IF ~PathExists(t, r.path)
       THEN Failure("not_found", path_str, FALSE)
       ELSE IF base_dir # NoBase /\ ~IsRelativeTo(r.path, base.path)
       THEN Failure("outside", path_str, FALSE)
       ELSE IF prompts /\ ~confirm
       THEN Failure("declined", PathName(r.path), FALSE)
       ELSE IF sensitive /\ ~prompts
       THEN Failure("blocked", PathName(r.path), TRUE)
       ELSE [ok |-> TRUE, path |-> r.path, err |-> "none", names |-> <<>>,
             hint |-> FALSE, asked |-> prompts]

----------------------------------------------------------------------------
(* File intake: cli/utils.py *)

MaxPrompts == 2       \* answers the user has ready for "Include this file?"

\* str(path) of an absolute path
RECURSIVE PathString(_)
PathString(path) ==
    IF path = Root THEN <<>>
    ELSE <<"/">> \o Head(path) \o PathString(Tail(path))

\* the n-th answer of the user; none left is a decline
Answer(answers, n) == IF n <= Len(answers) THEN answers[n] ELSE FALSE

\* is_binary_file: the files are text, and any exception of open() makes
\* the file count as binary
IsBinaryFile(t, path) == ~t[path].readable

\* read_file_with_metadata: a FileAccessError of its own validation is an
\* Exception that is neither FileNotFoundError nor PermissionError, so ""
\* is returned; a binary file gives "" as well.  ret is "raised" for the
\* FileNotFoundError or PermissionError of lines 51-54, which no file of
\* the tree brings about: open() is tried by is_binary_file first.
ReadFileWithMetadata(t, filepath, allow_sensitive, tty, confirm) ==
    LET v == ValidateFilePath(t, filepath, NoBase, allow_sensitive, TRUE,
                              tty, confirm)
    IN IF ~v.ok THEN [ret |-> "empty", path |-> Root, asked |-> v.asked]
       ELSE IF IsBinaryFile(t, v.path)
       THEN [ret |-> "empty", path |-> v.path, asked |-> v.asked]
       ELSE [ret |-> "content", path |-> v.path, asked |-> v.asked]

\* file_path.is_file(), which follows symbolic links
IsFile(t, path) ==
    LET r == Resolve(t, PathString(path))
    IN r.ok /\ r.path \in DOMAIN t /\ t[r.path].kind = "file"

\* lines 95-97: the entries below dir that are files and have no component
\* starting with "."
WalkedFiles(t, dir) ==
    {q \in DOMAIN t :
        /\ Len(q) > Len(dir)
        /\ IsRelativeTo(q, dir)
        /\ IsFile(t, q)
        /\ \A i \in 1..Len(q) : q[i][1] # "."}

Orders(S) ==
    {o \in [1..Cardinality(S) -> S] :
        \A i, j \in 1..Cardinality(S) : o[i] = o[j] => i = j}

Raised(n) == [raised |-> TRUE, parts |-> <<>>, n |-> n]

\* lines 95-112 for the files of a directory in the order rglob gives them;
\* n is the number of the next answer
RECURSIVE WalkDirectory(_, _, _, _, _, _, _)
WalkDirectory(t, order, allow_sensitive, tty, answers, n, parts) ==
    IF order = <<>> THEN [raised |-> FALSE, parts |-> parts, n |-> n]
    ELSE LET str == PathString(Head(order))
             v == ValidateFilePath(t, str, NoBase, allow_sensitive, TRUE, tty,
                                   Answer(answers, n))
             n1 == IF v.asked THEN n + 1 ELSE n
             c == ReadFileWithMetadata(t, str, allow_sensitive, tty,
                                       Answer(answers, n1))
             n2 == IF c.asked THEN n1 + 1 ELSE n1
         IN IF ~v.ok THEN Raised(n1)
            ELSE IF c.ret = "raised" THEN Raised(n2)
            ELSE WalkDirectory(t, Tail(order), allow_sensitive, tty, answers,
                               n2,
                               IF c.ret = "content"
                               THEN Append(parts, c.path) ELSE parts)

\* process_files_and_stdin for one path argument, up to the files' parts;
\* order is the order in which rglob yields the files of a directory
ProcessFiles(t, path_str, order, allow_sensitive, tty, answers) ==
    LET v == ValidateFilePath(t, path_str, NoBase, allow_sensitive, TRUE, tty,
                              Answer(answers, 1))
        n1 == IF v.asked THEN 2 ELSE 1
        c == ReadFileWithMetadata(t, PathString(v.path), allow_sensitive,
                                  tty, Answer(answers, n1))
    IN IF ~v.ok THEN Raised(n1)
       ELSE IF v.path # Root /\ t[v.path].kind = "file"
       THEN IF c.ret = "raised" THEN Raised(n1)
            ELSE [raised |-> FALSE,
                  parts |-> IF c.ret = "content" THEN <<c.path>> ELSE <<>>,
                  n |-> n1]
       ELSE WalkDirectory(t, order, allow_sensitive, tty, answers, n1, <<>>)

\* the files the argument stands for: the file itself, or the files found
\* below the directory, as resolved paths
SuppliedFiles(t, path_str) ==
    LET r == Resolve(t, path_str)
    IN IF ~r.ok \/ ~PathExists(t, r.path) THEN {}
       ELSE IF r.path # Root /\ t[r.path].kind = "file" THEN {r.path}
       ELSE {Resolve(t, PathString(q)).path : q \in WalkedFiles(t, r.path)}

\* path arguments: plain, hidden, sensitive, through the link, upwards,
\* absolute, missing, and directories
PathInputs ==
    {<<"a">>, DotEnv, DotSsh \o <<"/", "k">>, <<"l">>, <<"l", "/", "s">>,
     <<"l", "/", ".", ".", "/", "a">>, <<".", ".", "/", "o", "/", "s">>,
     <<"/", "o", "/", "s">>, <<"/", "w", "/", "a">>, <<"z">>, <<"d">>,
     <<"d", "/", "f">>, <<"d", "/">> \o SPem, <<".">>, <<>>}

BaseInputs == {NoBase, <<"/", "w">>, <<"/", "w", "/", "d">>}

Trees ==
    {TreeOf(locked, link) :
        locked \in {Root, <<<<"w">>, <<"a">>>>, <<<<"w">>, <<"d">>, <<"f">>>>},
        link \in LinkTargets \cup {<<>>}}

\* validate_file_path is called
DoValidateFilePath ==
    /\ pval.op = "input"
    /\ \E base_dir \in BaseInputs, interactive \in BOOLEAN :
        pval' = [pval EXCEPT
                    !.op = "validate",
                    !.base_dir = base_dir,
                    !.interactive = interactive,
                    !.ret = ValidateFilePath(tree, pval.path_str, base_dir,
                                pval.allow_sensitive, interactive, pval.tty,
                                Answer(pval.answers, 1))]
    /\ UNCHANGED <<besidePaths, tree>>

\* process_files_and_stdin is called with one path argument
DoProcessFiles ==
    /\ pval.op = "input"
    /\ LET r == Resolve(tree, pval.path_str)
       IN \E order \in Orders(IF r.ok /\ PathExists(tree, r.path)
                              THEN WalkedFiles(tree, r.path) ELSE {}) :
            pval' = [pval EXCEPT
                        !.op = "process",
                        !.ret = ProcessFiles(tree, pval.path_str, order,
                                    pval.allow_sensitive, pval.tty,
                                    pval.answers)]
    /\ UNCHANGED <<besidePaths, tree>>

\* a path is about to be handed in, on some tree, by some user
InitPaths ==
    /\ StoreIdle
    /\ sel = NoSelector
    /\ cfg = NoConfig
    /\ rsv = NoResolve
    /\ cch = NoCache
    /\ brw = NoBrowse
    /\ nons = NoNonStreaming
    /\ san = NoSanitize
    /\ procs = <<>>
    /\ reg = NoRegistry
    /\ strm = NoStreaming
    /\ tree \in Trees
    /\ \E path_str \in PathInputs, allow_sensitive \in BOOLEAN,
          tty \in BOOLEAN, answers \in [1..MaxPrompts -> BOOLEAN] :
        /\ ~tty => \A i \in 1..MaxPrompts : ~answers[i]
        /\ pval = [op |-> "input", path_str |-> path_str,
                   base_dir |-> NoBase, allow_sensitive |-> allow_sensitive,
                   interactive |-> TRUE, tty |-> tty, answers |-> answers,
                   ret |-> None]

NextPaths ==
    \/ DoValidateFilePath
    \/ DoProcessFiles

SpecPaths == InitPaths /\ [][NextPaths]_vars

\* no component of the path is a symbolic link
Canonical(t, path) ==
    \A i \in 1..Len(path) :
        SubSeq(path, 1, i) \in DOMAIN t => t[SubSeq(path, 1, i)].kind # "link"

\* C13: with a base directory, validate_file_path returns only a path that
\* has no symbolic link left in it and is the resolved base directory or
\* lies below it; the link /w/l pointing out of the base is rejected.
C13_ValidatedPathInsideBase ==
    (pval.op = "validate" /\ pval.base_dir # NoBase)
    => /\ pval.ret.ok =>
            /\ Canonical(tree, pval.ret.path)
            /\ PathExists(tree, pval.ret.path)
            /\ IsRelativeTo(pval.ret.path,
                            SplitPath(Tail(pval.base_dir), <<>>))
       /\ (/\ pval.path_str = <<"l">>
           /\ <<<<"w">>, <<"l">>>> \in DOMAIN tree
           /\ tree[<<<<"w">>, <<"l">>>>].target
                  \in {<<"/", "o", "/", "s">>, <<"/", "o">>,
                       <<".", ".", "/", "o", "/", "s">>})
          => /\ ~pval.ret.ok
             /\ pval.ret.err = "outside"

\* the link inside the base that points to /o/s was refused
C13_Witness ==
    /\ pval.op = "validate"
    /\ pval.base_dir = <<"/", "w">>
    /\ pval.path_str = <<"l">>
    /\ <<<<"w">>, <<"l">>>> \in DOMAIN tree
    /\ tree[<<<<"w">>, <<"l">>>>].target = <<"/", "o", "/", "s">>
    /\ ~pval.ret.ok

\* C14: for an existing path that passes the base directory check and
\* interactive = False, validate_file_path succeeds exactly if the resolved
\* path is not sensitive or allow_sensitive is set; its error names the
\* file and mentions the override flag.
C14_SensitiveBlockedUnlessAllowed ==
    (/\ pval.op = "validate"
     /\ ~pval.interactive
     /\ pval.ret.err \notin {"invalid", "not_found", "outside"})
    => LET path == Resolve(tree, pval.path_str).path
       IN /\ pval.ret.ok <=> (~IsSensitivePath(path) \/ pval.allow_sensitive)
          /\ pval.ret.ok => pval.ret.path = path
          /\ ~pval.ret.ok =>
                /\ pval.ret.err = "blocked"
                /\ pval.ret.names = PathName(path)
                /\ pval.ret.hint

\* ".env" was allowed by the flag, without a terminal
C14_Witness ==
    /\ pval.op = "validate"
    /\ ~pval.interactive
    /\ pval.path_str = DotEnv
    /\ pval.allow_sensitive
    /\ pval.ret.ok
    /\ pval.ret.path = <<<<"w">>, DotEnv>>

\* C15: when process_files_and_stdin returns, every file the argument
\* stands for is among the parts of the prompt.
C15_NoFileSilentlyLeftOut ==
    (pval.op = "process" /\ ~pval.ret.raised)
    => \A q \in SuppliedFiles(tree, pval.path_str) :
          \E i \in 1..Len(pval.ret.parts) : pval.ret.parts[i] = q

----------------------------------------------------------------------------
(* Two processes saving the same session name: each holds its own Session  *)
(* object and its own descriptor, and both run save_session on one         *)
(* sessions directory.                                                     *)

Procs == {1, 2}

\* the Sessions two processes can hold for the name "a": loaded from the
\* same file and grown by zero or more exchanges since
ProcSessions ==
    {[NewSession(<<"a">>, "m1", "p1", 0) EXCEPT
         !.turns = [i \in 1..n |->
                       Turn(IF i % 2 = 1 THEN "user" ELSE "assistant",
                            <<"h">>, "m1", EmptyDict)]] :
        n \in {0, 2, 4}}

ProcOpenInos(ps) ==
    {ps[x].ino : x \in {y \in Procs : ps[y].pc = "write"}}

\* save_session lines 115-121 in process x: updated_at is set, the temp
\* file is opened for writing and the Session serialized
ProcOpen(x) ==
    /\ procs[x].pc = "start"
    /\ LET s == Touch(procs[x].s, now)
           tmp == TmpPath(GetSessionPath(s.name))
           o == FsOpenW(fs, tmp, ProcOpenInos(procs))
       IN /\ fs' = o.fs
          /\ procs' = [procs EXCEPT ![x].pc = "write", ![x].s = s,
                                    ![x].ino = o.ino,
                                    ![x].buf = DumpJson(s)]
    /\ UNCHANGED besideProcs

\* save_session lines 121-122 in process x: the text is written through the
\* descriptor, which is then closed
ProcWrite(x) ==
    /\ procs[x].pc = "write"
    /\ procs' = [procs EXCEPT ![x].pc = "replace", ![x].ino = 0]
    /\ fs' = FsGc(FsWriteAt(fs, procs[x].ino, 0, procs[x].buf),
                  ProcOpenInos(procs'))
    /\ UNCHANGED besideProcs

\* save_session line 125 in process x
ProcReplace(x) ==
    /\ procs[x].pc = "replace"
    /\ LET path == GetSessionPath(procs[x].s.name)
           tmp == TmpPath(path)
       IN IF FsExists(fs, tmp)
          THEN /\ fs' = FsReplace(fs, tmp, path, ProcOpenInos(procs))
               /\ procs' = [procs EXCEPT ![x].pc = "ok"]
          ELSE /\ fs' = fs
               /\ procs' = [procs EXCEPT ![x].pc = "cleanup"]
    /\ UNCHANGED besideProcs

\* save_session lines 127-132 in process x
ProcCleanup(x) ==
    /\ procs[x].pc = "cleanup"
    /\ LET tmp == TmpPath(GetSessionPath(procs[x].s.name))
       IN fs' = IF FsExists(fs, tmp)
                THEN FsUnlink(fs, tmp, ProcOpenInos(procs))
                ELSE fs
    /\ procs' = [procs EXCEPT ![x].pc = "raised"]
    /\ UNCHANGED besideProcs

\* both processes are about to call save_session
InitProcs ==
    /\ StoreIdle
    /\ sel = NoSelector
    /\ cfg = NoConfig
    /\ rsv = NoResolve
    /\ cch = NoCache
    /\ brw = NoBrowse
    /\ nons = NoNonStreaming
    /\ san = NoSanitize
    /\ tree = <<>>
    /\ pval = NoValidation
    /\ reg = NoRegistry
    /\ strm = NoStreaming
    /\ procs \in [Procs -> {[pc |-> "start", s |-> s, ino |-> 0,
                             buf |-> <<>>] : s \in ProcSessions}]

NextProcs ==
    \/ \E x \in Procs : ProcOpen(x)
    \/ \E x \in Procs : ProcWrite(x)
    \/ \E x \in Procs : ProcReplace(x)
    \/ \E x \in Procs : ProcCleanup(x)

SpecProcs == InitProcs /\ [][NextProcs]_vars

\* C16: when both processes have left save_session, the session file holds
\* exactly the complete document that one of the two wrote, the one whose
\* rename succeeded last, and never a mixture or a part of the documents.
C16_LastWriterWins ==
    (\A x \in Procs : procs[x].pc \in {"ok", "raised"})
    => /\ FsExists(fs, GetSessionPath(<<"a">>))
       /\ \E x \in Procs :
             FsRead(fs, GetSessionPath(<<"a">>)) = procs[x].buf

\* C17: while a background save is between setting updated_at on the
\* Session and serializing it, no step of the REPL's own thread (a turn, a
\* command, the final save) changes or serializes that Session.
C17_SessionHasOneOwner ==
    [][(/\ \E th \in Threads \ {0} : bg[th].pc = "dump"
        /\ \A th \in Threads \ {0} : bg[th].pc # "idle" => bg'[th] = bg[th])
       => /\ sess' = sess
          /\ ~(bg[0].pc = "dump" /\ bg'[0].pc = "write")]_vars

----------------------------------------------------------------------------
(* The provider registry: core/provider_manager.py.  Of the four provider  *)
(* classes three are kept: two remote ones and the local "ollama", which   *)
(* list_all_models_fast treats on its own.                                 *)

MaxRegCalls == 2      \* registry calls in one process

\* PROVIDER_CLASSES, in the order of the dict
ProviderOrder == <<"openai", "anthropic", "ollama">>

ProviderNames == {ProviderOrder[i] : i \in 1..Len(ProviderOrder)}

\* what a provider is like in this process: disabled in the config; its
\* constructor raises; it is constructed but not available (no API key);
\* its list_models raises or returns nothing; or it works
ProviderKinds ==
    {"disabled", "ctor_raises", "unavailable", "list_raises", "list_empty",
     "good"}

\* the models a working provider lists
ModelsOf(name) == <<<<"m", name>>>>

\* ProviderManager._initialize_provider; provider tells whether a client
\* is returned, built counts the clients constructed for each name
InitializeProvider(r, provider_name) ==
    IF provider_name \in r.providers THEN [reg |-> r, provider |-> TRUE]
    ELSE IF provider_name \notin ProviderNames
    THEN [reg |-> r, provider |-> FALSE]
    ELSE IF r.env[provider_name] \in {"disabled", "ctor_raises"}
    THEN [reg |-> r, provider |-> FALSE]
    ELSE IF r.env[provider_name] = "unavailable"
    THEN [reg |-> [r EXCEPT !.built[provider_name] = @ + 1],
          provider |-> FALSE]
    ELSE [reg |-> [r EXCEPT !.built[provider_name] = @ + 1,
                            !.providers = @ \cup {provider_name}],
          provider |-> TRUE]

\* ProviderManager.list_providers
ListProviders(r) ==
    SelectSeq(ProviderOrder, LAMBDA name : r.env[name] # "disabled")

\* all_models[name] = models
Put(d, name, models) ==
    [k \in DOMAIN d \cup {name} |-> IF k = name THEN models ELSE d[k]]

RECURSIVE ListLoopStopping(_, _, _)
RECURSIVE ListLoop(_, _, _)

\* the loop of list_all_models that gives up at the first provider that
\* fails
ListLoopStopping(r, names, all_models) ==
    IF names = <<>> THEN [reg |-> r, all_models |-> all_models]
    ELSE LET i == InitializeProvider(r, Head(names))
         IN IF ~i.provider \/ r.env[Head(names)] = "list_raises"
            THEN [reg |-> i.reg, all_models |-> all_models]
            ELSE ListLoopStopping(i.reg, Tail(names),
                     IF r.env[Head(names)] = "good"
                     THEN Put(all_models, Head(names), ModelsOf(Head(names)))
                     ELSE all_models)

\* list_all_models lines 88-96: an exception of list_models is logged
ListLoop(r, names, all_models) ==
    IF names = <<>> THEN [reg |-> r, all_models |-> all_models]
    ELSE LET i == InitializeProvider(r, Head(names))
         IN ListLoop(i.reg, Tail(names),
                     IF i.provider /\ r.env[Head(names)] = "good"
                     THEN Put(all_models, Head(names), ModelsOf(Head(names)))
                     ELSE all_models)

\* list_all_models_fast lines 124-139: only ollama is asked for its models
RECURSIVE FastLoop(_, _, _)
FastLoop(r, names, all_models) ==
    IF names = <<>> THEN [reg |-> r, all_models |-> all_models]
    ELSE LET i == InitializeProvider(r, Head(names))
         IN FastLoop(i.reg, Tail(names),
                     IF ~i.provider THEN all_models
                     ELSE IF Head(names) # "ollama"
                     THEN Put(all_models, Head(names), <<>>)
                     ELSE IF r.env[Head(names)] = "good"
                     THEN Put(all_models, Head(names), ModelsOf(Head(names)))
                     ELSE all_models)

\* the end of both listings: a result that is not empty is cached
Listed(l, hit) ==
    [reg |-> IF l.all_models # EmptyDict
             THEN [l.reg EXCEPT !.cache = l.all_models] ELSE l.reg,
     result |-> l.all_models, hit |-> hit]

\* ProviderManager.list_all_models; a cache written in this process has
\* not expired
ListAllModels(r, use_cache) ==
    IF use_cache /\ r.cache # EmptyDict
    THEN [reg |-> r, result |-> r.cache, hit |-> TRUE]
    ELSE Listed(ListLoop(r, ListProviders(r), EmptyDict), FALSE)

\* ProviderManager.list_all_models_fast
ListAllModelsFast(r, use_cache) ==
    IF use_cache /\ r.cache # EmptyDict
    THEN [reg |-> r, result |-> r.cache, hit |-> TRUE]
    ELSE Listed(FastLoop(r, ListProviders(r), EmptyDict), FALSE)

NotFound == <<"none">>

\* find_model lines 159-180: the first provider asked that lists the model
RECURSIVE FindLoop(_, _, _)
FindLoop(r, names, model_id) ==
    IF names = <<>> THEN [reg |-> r, result |-> NotFound]
    ELSE LET i == InitializeProvider(r, Head(names))
         IN IF /\ i.provider
               /\ r.env[Head(names)] = "good"
               /\ \E k \in 1..Len(ModelsOf(Head(names))) :
                     ModelsOf(Head(names))[k] = model_id
            THEN [reg |-> i.reg, result |-> <<Head(names)>>]
            ELSE FindLoop(i.reg, Tail(names), model_id)

\* ProviderManager.find_model; provider_name "" is None
FindModel(r, model_id, provider_name) ==
    IF provider_name # ""
    THEN FindLoop(r, <<provider_name>>, model_id)
    ELSE FindLoop(r, ListProviders(r), model_id)

RegBudget == reg.n < MaxRegCalls

Called(r, op, name, result, hit) ==
    [r EXCEPT !.n = @ + 1, !.op = op, !.name = name, !.result = result,
              !.hit = hit]

DoGetProvider ==
    /\ RegBudget
    /\ \E name \in ProviderNames \cup {"other"} :
        LET i == InitializeProvider(reg, name)
        IN reg' = Called(i.reg, "get_provider", name,
                         IF i.provider THEN <<name>> ELSE NotFound, FALSE)
    /\ UNCHANGED besideRegistry

DoListAllModels ==
    /\ RegBudget
    /\ \E use_cache \in BOOLEAN :
        LET l == ListAllModels(reg, use_cache)
        IN reg' = Called(l.reg, "list_all_models", "", l.result, l.hit)
    /\ UNCHANGED besideRegistry

DoListAllModelsFast ==
    /\ RegBudget
    /\ \E use_cache \in BOOLEAN :
        LET l == ListAllModelsFast(reg, use_cache)
        IN reg' = Called(l.reg, "list_all_models_fast", "", l.result, l.hit)
    /\ UNCHANGED besideRegistry

DoFindModel ==
    /\ RegBudget
    /\ \E model_id \in {<<"m", "ollama">>, <<"z">>},
          name \in {"", "anthropic", "ollama"} :
        LET f == FindModel(reg, model_id, name)
        IN reg' = Called(f.reg, "find_model", name, f.result, FALSE)
    /\ UNCHANGED besideRegistry

\* a new process: nothing constructed, no cache file that has not expired
InitRegistry ==
    /\ StoreIdle
    /\ sel = NoSelector
    /\ cfg = NoConfig
    /\ rsv = NoResolve
    /\ cch = NoCache
    /\ brw = NoBrowse
    /\ nons = NoNonStreaming
    /\ san = NoSanitize
    /\ tree = <<>>
    /\ pval = NoValidation
    /\ procs = <<>>
    /\ strm = NoStreaming
    /\ \E env \in [ProviderNames -> ProviderKinds] :
        reg = [op |-> "new", n |-> 0, env |-> env, providers |-> {},
               built |-> [name \in ProviderNames |-> 0],
               cache |-> EmptyDict, name |-> "", result |-> NotFound,
               hit |-> FALSE]

NextRegistry ==
    \/ DoGetProvider
    \/ DoListAllModels
    \/ DoListAllModelsFast
    \/ DoFindModel

SpecRegistry == InitRegistry /\ [][NextRegistry]_vars

\* C18: in one process the client of a provider name is constructed at
\* most once.
C18_ConstructedAtMostOnce ==
    reg.op # "none" => \A name \in ProviderNames : reg.built[name] <= 1

\* C19: a list_all_models call that asks the providers returns, and its
\* result holds the models of every enabled provider that works, whatever
\* the other providers do.
C19_FailingProviderIsolated ==
    (reg.op = "list_all_models" /\ ~reg.hit)
    => \A name \in ProviderNames :
          reg.env[name] = "good"
          => /\ name \in DOMAIN reg.result
             /\ reg.result[name] = ModelsOf(name)

\* the first provider's constructor raised, the second's list_models
\* raised, and the third's models are in the result
C19_Witness ==
    /\ reg.op = "list_all_models"
    /\ ~reg.hit
    /\ reg.env["openai"] = "ctor_raises"
    /\ reg.env["anthropic"] = "list_raises"
    /\ reg.env["ollama"] = "good"
    /\ reg.result = Put(EmptyDict, "ollama", ModelsOf("ollama"))

\* C29: every provider entry of a map that list_all_models returns carries
\* a model list that is not empty; the empty list list_all_models_fast
\* enters for a remote provider never comes back from list_all_models.
C29_FullListingNeverEmptyEntry ==
    reg.op = "list_all_models"
    => \A name \in DOMAIN reg.result : reg.result[name] # <<>>

----------------------------------------------------------------------------
(* One call of CompletionHandler._handle_streaming, fragment by fragment.  *)
(* The coroutine runs under asyncio.run (cli/core.py 135, chat.py 63): a   *)
(* Ctrl-C that arrives while it waits for the next fragment cancels the    *)
(* task, so the await of line 134 raises CancelledError; a Ctrl-C raises   *)
(* KeyboardInterrupt in the coroutine only while its own code is running.  *)

MaxChunks == 3        \* fragments of one stream

Fragments == {<<>>, <<"x">>, <<"y">>}

Streaming(buffer, printed) ==
    [op |-> "streaming", buffer |-> buffer, printed |-> printed,
     ending |-> "", content |-> <<>>, tokens |-> EmptyDict]

\* return response_content, tokens, duration_ms (lines 151, 157, 162)
StreamReturned(ending) ==
    LET h == HandleStreaming([chunks |-> strm.buffer, ending |-> ending])
    IN [strm EXCEPT !.op = "returned", !.ending = ending,
                    !.content = h.content, !.tokens = h.tokens]

\* lines 134-136: the provider yields a fragment, it is printed and kept
StreamChunk ==
    /\ strm.op = "streaming"
    /\ Len(strm.buffer) < MaxChunks
    /\ \E chunk \in Fragments :
        strm' = Streaming(Append(strm.buffer, chunk),
                          Append(strm.printed, chunk))
    /\ UNCHANGED besideStreaming

\* lines 137-151: the stream is exhausted
StreamDone ==
    /\ strm.op = "streaming"
    /\ strm' = StreamReturned("done")
    /\ UNCHANGED besideStreaming

\* lines 153-157: KeyboardInterrupt raised in the coroutine
StreamKeyboardInterrupt ==
    /\ strm.op = "streaming"
    /\ strm' = StreamReturned("interrupt")
    /\ UNCHANGED besideStreaming

\* lines 158-162: the provider raised an Exception
StreamError ==
    /\ strm.op = "streaming"
    /\ strm' = StreamReturned("error")
    /\ UNCHANGED besideStreaming

\* the task is cancelled on Ctrl-C while line 134 waits: CancelledError is
\* a BaseException, which neither except clause (153, 158) catches
StreamCancelled ==
    /\ strm.op = "streaming"
    /\ strm' = [strm EXCEPT !.op = "raised", !.ending = "cancel"]
    /\ UNCHANGED besideStreaming

\* lines 129-131
InitStreaming ==
    /\ StoreIdle
    /\ sel = NoSelector
    /\ cfg = NoConfig
    /\ rsv = NoResolve
    /\ cch = NoCache
    /\ brw = NoBrowse
    /\ nons = NoNonStreaming
    /\ san = NoSanitize
    /\ tree = <<>>
    /\ pval = NoValidation
    /\ procs = <<>>
    /\ reg = NoRegistry
    /\ strm = Streaming(<<>>, <<>>)

NextStreaming ==
    \/ StreamChunk
    \/ StreamDone
    \/ StreamKeyboardInterrupt
    \/ StreamError
    \/ StreamCancelled

SpecStreaming == InitStreaming /\ [][NextStreaming]_vars

\* C20: a streaming call that ended normally or by the user's interruption
\* has returned, not raised, and its content is the concatenation, in
\* order, of exactly the fragments printed before the end.
C20_InterruptReturnsPartial ==
    (/\ strm.op \in {"returned", "raised"}
     /\ strm.ending \in {"done", "interrupt", "cancel"})
    => /\ strm.op = "returned"
       /\ strm.content = Join(strm.printed)

----------------------------------------------------------------------------
(* One call of CompletionHandler._handle_non_streaming.  The clock counts  *)
(* milliseconds, as int((time.time() - start_time) * 1000) does.           *)

MaxClock == 6         \* the latest reading of time.time()

\* what await provider.complete(request) does: it returns a response, raises
\* an Exception ("error"), or the task is cancelled while it waits ("cancel")
CompleteOutcomes ==
    {[kind |-> "response", resp |-> r] : r \in Responses \ {None}}
    \cup {[kind |-> "error", resp |-> None], [kind |-> "cancel", resp |-> None]}

\* lines 175-193 and 195-198: what is returned at clock reading end
NonStreamingReturn(outcome, start_time, end) ==
    LET h == HandleNonStreaming(outcome.resp)
    IN [content |-> h.content, tokens |-> h.tokens,
        duration_ms |-> IF outcome.kind = "error" THEN 0 ELSE end - start_time]

\* the whole call from line 174 on; CancelledError is no Exception, so the
\* except clause of line 195 lets it through
DoHandleNonStreaming ==
    /\ nons.op = "called"
    /\ \E outcome \in CompleteOutcomes, end \in nons.start_time..MaxClock :
        LET r == NonStreamingReturn(outcome, nons.start_time, end)
        IN nons' = IF outcome.kind = "cancel"
                   THEN [nons EXCEPT !.op = "raised", !.outcome = outcome.kind,
                                     !.end = end]
                   ELSE [nons EXCEPT !.op = "returned",
                                     !.outcome = outcome.kind, !.end = end,
                                     !.content = r.content,
                                     !.tokens = r.tokens,
                                     !.duration_ms = r.duration_ms]
    /\ UNCHANGED besideNonStreaming

\* line 173: start_time = time.time()
InitNonStreaming ==
    /\ StoreIdle
    /\ sel = NoSelector
    /\ cfg = NoConfig
    /\ rsv = NoResolve
    /\ cch = NoCache
    /\ brw = NoBrowse
    /\ san = NoSanitize
    /\ tree = <<>>
    /\ pval = NoValidation
    /\ procs = <<>>
    /\ reg = NoRegistry
    /\ strm = NoStreaming
    /\ \E start_time \in 0..MaxClock :
        nons = [op |-> "called", start_time |-> start_time, outcome |-> "",
                end |-> start_time, content |-> <<>>, tokens |-> EmptyDict,
                duration_ms |-> 0]

NextNonStreaming == DoHandleNonStreaming

SpecNonStreaming == InitNonStreaming /\ [][NextNonStreaming]_vars

\* C21: when provider.complete fails, the non-streaming call returns empty
\* content, empty usage and the time from its start to its return.
C21_FailureReturnsDuration ==
    nons.outcome = "error"
    => /\ nons.op = "returned"
       /\ nons.content = <<>>
       /\ nons.tokens = EmptyDict
       /\ nons.duration_ms = nons.end - nons.start_time

----------------------------------------------------------------------------
(* Listing and searching the sessions directory: list_sessions and         *)
(* search_sessions of session/manager.py.  The directory holds what earlier *)
(* runs left there: sessions made by create_session and get_temp_session,  *)
(* and sessions the REPL saved under the raw argument of /save             *)
(* (cli/repl.py 244-246), whose file name is not sanitized.                *)

MaxFiles == 3         \* session files in the directory
MaxStamp == 1         \* the latest updated_at and modification time

\* session names in the directory; "b:" is a /save argument
BrowseNames ==
    {<<"e">>, <<"b", "_">>, <<"b", ":">>, TempPrefix \o <<"1">>,
     TempPrefix \o <<"2">>}

BrowseContents == {<<"E">>, <<"q">>}

Queries == {<<"E">>, <<"b">>, <<"q">>}

\* the turns of a stored session: none, or one turn
BrowseTurns ==
    {<<>>} \cup {<<Turn("user", c, "m1", EmptyDict)>> : c \in BrowseContents}

\* the session files of a directory: name -> the session saved under it
Directories(turns) ==
    UNION {[names -> [turns : turns, updated_at : 0..MaxStamp,
                      st_mtime : 0..MaxStamp]] :
              names \in {S \in SUBSET BrowseNames : Cardinality(S) <= MaxFiles}}

\* the session of one directory entry
StoredSession(name, e) ==
    [NewSession(name, "m1", "p1", 0) EXCEPT !.turns = e.turns,
                                            !.updated_at = e.updated_at]

\* save_session of every session of the directory, each under its own name
RECURSIVE StoreOf(_, _)
StoreOf(d, names) ==
    IF names = {} THEN EmptyFs
    ELSE LET n == CHOOSE x \in names : TRUE
         IN SaveSession(StoreOf(d, names \ {n}), StoredSession(n, d[n]),
                        NoFault).fs

\* path.stem of a "<stem>.json" path
Stem(path) == SubSeq(path, 1, Len(path) - 1)

\* sessions_dir.glob("*.json"): the files directly in the directory
GlobJson(f) ==
    {path \in DOMAIN f.dir :
        path[Len(path)] = ".json" /\ DirPart(path) = <<>>}

\* a in b, for strings
Contains(a, b) ==
    \E i \in 0..(Len(b) - Len(a)) : SubSeq(b, i + 1, i + Len(a)) = a

\* list.sort(key=updated_at, reverse=True) is stable: x goes behind the
\* entries that are not older
InsertByUpdatedAt(sorted, x) ==
    LET k == Cardinality({i \in 1..Len(sorted) :
                              sorted[i].updated_at >= x.updated_at})
    IN SubSeq(sorted, 1, k) \o <<x>> \o SubSeq(sorted, k + 1, Len(sorted))

RECURSIVE SortByUpdatedAt(_)
SortByUpdatedAt(seq) ==
    IF seq = <<>> THEN <<>>
    ELSE InsertByUpdatedAt(SortByUpdatedAt(SubSeq(seq, 1, Len(seq) - 1)),
                           seq[Len(seq)])

\* a loop that skips no path
SkipNothing(path) == FALSE

\* lines 157-158 and 244-245: if path.stem.startswith(".temp-"): continue
SkipTemp(path) == IsTempName(Stem(path))

\* the loop of list_sessions over the paths in the order glob gives them
RECURSIVE ListLoopSessions(_, _)
ListLoopSessions(f, paths) ==
    IF paths = <<>> THEN <<>>
    ELSE LET session == LoadSession(f, Stem(Head(paths)))
         IN (IF SkipTemp(Head(paths)) \/ session = None
             THEN <<>> ELSE <<session>>)
            \o ListLoopSessions(f, Tail(paths))

\* SessionManager.list_sessions
ListSessions(f, order) == SortByUpdatedAt(ListLoopSessions(f, order))

\* the first turn whose content holds the query, 0 when there is none
FirstMatch(turns, query_lower) ==
    LET hits == {i \in 1..Len(turns) :
                    Contains(query_lower, LowerAll(turns[i].content))}
    IN IF hits = {} THEN 0 ELSE CHOOSE i \in hits : \A j \in hits : i <= j

SearchResult(session, match_type, matched_text) ==
    [session_name |-> session.name, match_type |-> match_type,
     matched_text |-> matched_text, turn_count |-> Len(session.turns),
     updated_at |-> session.updated_at]

\* search_sessions lines 252-276: what one loaded session adds
MatchSession(session, query_lower) ==
    LET i == FirstMatch(session.turns, query_lower)
    IN IF Contains(query_lower, LowerAll(session.name))
       THEN <<SearchResult(session, "name", session.name)>>
       ELSE IF i > 0
       THEN <<SearchResult(session, "content", session.turns[i].content)>>
       ELSE <<>>

RECURSIVE SearchLoop(_, _, _)
SearchLoop(f, paths, query_lower) ==
    IF paths = <<>> THEN <<>>
    ELSE LET session == LoadSession(f, Stem(Head(paths)))
         IN (IF SkipTemp(Head(paths)) \/ session = None
             THEN <<>> ELSE MatchSession(session, query_lower))
            \o SearchLoop(f, Tail(paths), query_lower)

\* SessionManager.search_sessions
SearchSessions(f, query, order) ==
    SortByUpdatedAt(SearchLoop(f, order, LowerAll(query)))

Browsed(op, query, order, result) ==
    [brw EXCEPT !.op = op, !.query = query, !.order = order,
                !.result = result]

DoListSessions ==
    /\ brw.op = "directory"
    /\ \E order \in Orders(GlobJson(fs)) :
        brw' = Browsed("list_sessions", <<>>, order, ListSessions(fs, order))
    /\ UNCHANGED <<besideBrowse, fs, now>>

DoSearchSessions ==
    /\ brw.op = "directory"
    /\ \E query \in Queries, order \in Orders(GlobJson(fs)) :
        brw' = Browsed("search_sessions", query, order,
                       SearchSessions(fs, query, order))
    /\ UNCHANGED <<besideBrowse, fs, now>>

\* a directory and the clock of the process that looks at it
Browsing(d, t) ==
    /\ fs = StoreOf(d, DOMAIN d)
    /\ now = t
    /\ brw = [op |-> "directory",
              st_mtime |-> [path \in {GetSessionPath(n) : n \in DOMAIN d} |->
                               d[Stem(path)].st_mtime],
              query |-> <<>>, order |-> <<>>, result |-> <<>>,
              max_age_hours |-> 0, cleaned |-> {}]

OthersIdle ==
    /\ sess = None
    /\ last = NoCall
    /\ calls = 0
    /\ ReplIdle
    /\ san = NoSanitize
    /\ tree = <<>>
    /\ pval = NoValidation
    /\ procs = <<>>
    /\ reg = NoRegistry
    /\ strm = NoStreaming
    /\ nons = NoNonStreaming
    /\ cch = NoCache
    /\ rsv = NoResolve
    /\ cfg = NoConfig
    /\ sel = NoSelector

\* file times play no part in listing and search: each file was written
\* when its session was last updated
InitBrowse ==
    /\ OthersIdle
    /\ \E d \in Directories(BrowseTurns) :
        /\ \A n \in DOMAIN d : d[n].st_mtime = d[n].updated_at
        /\ Browsing(d, MaxStamp)

NextBrowse ==
    \/ DoListSessions
    \/ DoSearchSessions

SpecBrowse == InitBrowse /\ [][NextBrowse]_vars

\* the session files a search or listing went over
BrowsedSessions == {ValidateJson(FsRead(fs, path)) : path \in GlobJson(fs)}

\* C22: search_sessions reports no session twice, and a session whose name
\* holds the query is reported with match_type "name", also when a turn of
\* it holds the query.
C22_SearchNameFirstAndOnce ==
    brw.op = "search_sessions"
    => /\ \A i, j \in 1..Len(brw.result) :
              brw.result[i].session_name = brw.result[j].session_name
              => i = j
       /\ \A s \in BrowsedSessions :
              (~IsTempName(s.name)
               /\ Contains(LowerAll(brw.query), LowerAll(s.name)))
              => \E i \in 1..Len(brw.result) :
                    /\ brw.result[i].session_name = s.name
                    /\ brw.result[i].match_type = "name"

\* C23: no session stored under a name that starts with ".temp-" is in the
\* result of list_sessions or of search_sessions.
C23_TempSessionsHidden ==
    /\ brw.op = "list_sessions"
       => \A i \in 1..Len(brw.result) : ~IsTempName(brw.result[i].name)
    /\ brw.op = "search_sessions"
       => \A i \in 1..Len(brw.result) :
              ~IsTempName(brw.result[i].session_name)

\* a temp session whose name and turn hold the query lies in the directory
\* beside a session that the search reports
C23_Witness ==
    /\ brw.op = "search_sessions"
    /\ brw.query = <<"E">>
    /\ brw.result # <<>>
    /\ \E s \in BrowsedSessions :
          /\ IsTempName(s.name)
          /\ s.turns # <<>>
          /\ s.turns[1].content = <<"E">>

----------------------------------------------------------------------------
(* cleanup_temp_sessions.  The clock and the file times count hours; a     *)
(* file's modification time need not be its session's updated_at           *)
(* (os.utime, a copied file).                                              *)

MaxAge == 2           \* the largest max_age_hours

\* the test of line 309 on the session's own updated_at
StaleByUpdatedAt(f, st_mtime, path, cutoff_time) == ValidateJson(FsRead(f, path)).updated_at < cutoff_time

\* lines 308-309: mtime < cutoff_time
Stale(f, st_mtime, path, cutoff_time) == st_mtime[path] < cutoff_time

\* sessions_dir.glob(".temp-*.json")
GlobTemp(f) == {path \in GlobJson(f) : IsTempName(Stem(path))}

RECURSIVE UnlinkAll(_, _)
UnlinkAll(f, paths) ==
    IF paths = {} THEN f
    ELSE LET path == CHOOSE x \in paths : TRUE
         IN UnlinkAll(FsUnlink(f, path, {}), paths \ {path})

\* SessionManager.cleanup_temp_sessions at clock t; no unlink fails
CleanupTempSessions(f, st_mtime, t, max_age_hours) ==
    LET cutoff_time == t - max_age_hours
        cleaned == {path \in GlobTemp(f) :
                       Stale(f, st_mtime, path, cutoff_time)}
    IN [fs |-> UnlinkAll(f, cleaned), cleaned |-> cleaned]

DoCleanupTempSessions ==
    /\ brw.op = "directory"
    /\ \E max_age_hours \in 0..MaxAge :
        LET c == CleanupTempSessions(fs, brw.st_mtime, now, max_age_hours)
        IN /\ fs' = c.fs
           /\ brw' = [brw EXCEPT !.op = "cleanup_temp_sessions",
                                 !.max_age_hours = max_age_hours,
                                 !.cleaned = c.cleaned,
                                 !.st_mtime =
                                     [path \in DOMAIN c.fs.dir |-> @[path]]]
    /\ UNCHANGED <<besideBrowse, now>>

\* sessions without turns, each file with a time of its own
InitCleanup ==
    /\ OthersIdle
    /\ \E d \in Directories({<<>>}) : Browsing(d, MaxStamp + 1)

NextCleanup == DoCleanupTempSessions

SpecCleanup == InitCleanup /\ [][NextCleanup]_vars

----------------------------------------------------------------------------
(* The file cache: utils/cache.py.  A value is a Python object; the file   *)
(* holds the JSON text json.dump made of it, and get returns what          *)
(* json.load makes of that text.  The clock counts seconds.                *)

MaxCacheTime == 2     \* the latest reading of time.time()

CacheKeys == {"k1", "k2"}

\* Python values handed to set: a dict with string keys, a list, a string,
\* a tuple, a dict with an integer key, and a set
CacheValues ==
    {[py |-> "dict", keys |-> "str", v |-> <<1>>],
     [py |-> "list", keys |-> "", v |-> <<1, 2>>],
     [py |-> "str", keys |-> "", v |-> <<7>>],
     [py |-> "tuple", keys |-> "", v |-> <<1, 2>>],
     [py |-> "dict", keys |-> "int", v |-> <<1>>],
     [py |-> "set", keys |-> "", v |-> <<1>>]}

Expiries == {-1, 0, 1, MaxCacheTime + 1}

\* what json.dump can write in full
Serializable(value) == value.py # "set"

\* the values json.load gives back as they went in
JsonNative(value) ==
    \/ value.py \in {"list", "str"}
    \/ value.py = "dict" /\ value.keys = "str"

\* json.dump(data, f): a tuple is written as an array and the keys of a
\* dict as strings; at a value that cannot be written TypeError is raised
\* and the text breaks off
JsonDump(timestamp, value) ==
    IF ~Serializable(value)
    THEN [complete |-> FALSE, timestamp |-> timestamp, js |-> "", v |-> <<>>]
    ELSE [complete |-> TRUE, timestamp |-> timestamp,
          js |-> CASE value.py \in {"list", "tuple"} -> "array"
                   [] value.py = "dict" -> "object"
                   [] OTHER -> "string",
          v |-> value.v]

\* data["value"] after json.load
JsonLoadValue(text) ==
    [py |-> CASE text.js = "array" -> "list"
              [] text.js = "object" -> "dict"
              [] OTHER -> "str",
     keys |-> IF text.js = "object" THEN "str" ELSE "",
     v |-> text.v]

NoFile == [complete |-> FALSE, timestamp |-> -1, js |-> "absent", v |-> <<>>]

\* the expiry test with the boundary on the other side
ExpiredAtLimit(t, timestamp, expiry_seconds) == t - timestamp >= expiry_seconds

\* line 29: time.time() - data["timestamp"] > expiry_seconds
Expired(t, timestamp, expiry_seconds) == t - timestamp > expiry_seconds

\* CacheManager.get at clock t; a text that breaks off is a JSONDecodeError
CacheGet(files, key, expiry_seconds, t) ==
    IF files[key] = NoFile THEN None
    ELSE IF ~files[key].complete THEN None
    ELSE IF Expired(t, files[key].timestamp, expiry_seconds) THEN None
    ELSE JsonLoadValue(files[key])

\* CacheManager.set at clock t: open(cache_file, "w") and json.dump
CacheSet(files, key, value, t) ==
    [files EXCEPT ![key] = JsonDump(t, value)]

DoCacheSet ==
    /\ \E key \in CacheKeys, value \in CacheValues :
        cch' = [cch EXCEPT !.op = "set", !.key = key,
                           !.files = CacheSet(cch.files, key, value, cch.time),
                           !.set_value[key] = value,
                           !.set_time[key] = cch.time,
                           !.result = None]
    /\ UNCHANGED besideCache

DoCacheGet ==
    /\ \E key \in CacheKeys, expiry_seconds \in Expiries :
        cch' = [cch EXCEPT !.op = "get", !.key = key,
                           !.expiry_seconds = expiry_seconds,
                           !.result = CacheGet(cch.files, key, expiry_seconds,
                                               cch.time)]
    /\ UNCHANGED besideCache

\* time passes between two calls
CacheTick ==
    /\ cch.op # "none"
    /\ cch.time < MaxCacheTime
    /\ cch' = [cch EXCEPT !.time = @ + 1, !.op = "tick"]
    /\ UNCHANGED besideCache

\* CacheManager.__init__ on an empty cache directory
InitCache ==
    /\ StoreIdle
    /\ sel = NoSelector
    /\ cfg = NoConfig
    /\ rsv = NoResolve
    /\ san = NoSanitize
    /\ tree = <<>>
    /\ pval = NoValidation
    /\ procs = <<>>
    /\ reg = NoRegistry
    /\ strm = NoStreaming
    /\ nons = NoNonStreaming
    /\ brw = NoBrowse
    /\ cch = [op |-> "new", time |-> 0, key |-> "", expiry_seconds |-> 0,
              files |-> [key \in CacheKeys |-> NoFile],
              set_value |-> [key \in CacheKeys |-> None],
              set_time |-> [key \in CacheKeys |-> 0],
              result |-> None]

NextCache ==
    \/ DoCacheSet
    \/ DoCacheGet
    \/ CacheTick

SpecCache == InitCache /\ [][NextCache]_vars

\* the value the last set of the key of this get was called with
LastSet == cch.set_value[cch.key]

Elapsed == cch.time - cch.set_time[cch.key]

----------------------------------------------------------------------------
(* Resolving the argument of "nexus -d": _build_model_lookup and           *)
(* _resolve_model_selection of cli/commands/default.py.  Ids and provider  *)
(* names are sequences of characters; all_models is the dict in its        *)
(* insertion order, a sequence of entries.                                 *)

MaxModels == 2        \* models one provider lists

ResolveProviders == {<<"p">>, <<"k">>}

ModelIds == {<<"e">>, <<"E">>, <<"m">>}

ModelIdInputs ==
    {<<>>, <<"e">>, <<"E">>, <<"m">>, <<"y">>, <<"p", "/", "e">>,
     <<"p", "/", "y">>}

RECURSIVE ModelLists(_)
ModelLists(n) ==
    IF n = 0 THEN {<<>>}
    ELSE LET shorter == ModelLists(n - 1)
         IN shorter \cup {Append(l, id) : l \in shorter, id \in ModelIds}

\* the dicts list_all_models can return
AllModelsInputs ==
    {<<>>}
    \cup {<<[provider |-> pr, models |-> l]>> :
             pr \in ResolveProviders, l \in ModelLists(MaxModels)}
    \cup UNION {{<<[provider |-> pr, models |-> l],
                      [provider |-> qr, models |-> k]>> :
                       qr \in ResolveProviders \ {pr},
                       l \in ModelLists(MaxModels),
                       k \in ModelLists(MaxModels)} :
                   pr \in ResolveProviders}

\* the (provider_name, model.id) pairs in the order the loops of
\* _build_model_lookup visit them
RECURSIVE LookupPairs(_)
LookupPairs(all_models) ==
    IF all_models = <<>> THEN <<>>
    ELSE [i \in 1..Len(Head(all_models).models) |->
             <<Head(all_models).provider, Head(all_models).models[i]>>]
         \o LookupPairs(Tail(all_models))

\* model_name_map[model_key]: the pairs whose id is the key in lower
\* case, in order; <<>> when the key is not in the map
NameMatches(all_models, model_key) ==
    SelectSeq(LookupPairs(all_models),
              LAMBDA pair : LowerAll(pair[2]) = model_key)

\* provider_model_map[model_key]: the last pair written under the key
QualifiedMatches(all_models, model_key) ==
    SelectSeq(LookupPairs(all_models),
              LAMBDA pair : LowerAll(pair[1] \o <<"/">> \o pair[2]) = model_key)

\* the index of the first "/" of s, 0 when there is none
FirstSlash(s) ==
    LET at == {i \in 1..Len(s) : s[i] = "/"}
    IN IF at = {} THEN 0 ELSE CHOOSE i \in at : \A j \in at : i <= j

Resolution(provider, model, extra, error) ==
    [provider |-> provider, model |-> model, extra |-> extra, error |-> error]

\* a resolution that takes the first match of a bare id
ResolveFirstMatch(model_id, default_provider, all_models) == Resolution(NameMatches(all_models, LowerAll(model_id))[1][1], NameMatches(all_models, LowerAll(model_id))[1][2], <<>>, "")

\* lines 62-67: a bare id that is in model_name_map
ResolveBareMatch(model_id, default_provider, all_models) ==
    LET matches == NameMatches(all_models, LowerAll(model_id))
    IN IF Len(matches) = 1
       THEN Resolution(matches[1][1], matches[1][2], <<>>, "")
       ELSE Resolution(<<>>, <<>>, matches, "ambiguous")

\* _resolve_model_selection; "" is None for the error, <<>> for the rest,
\* and extra "warning" is the warning text
ResolveModelSelection(model_id, default_provider, all_models) ==
    LET model_key == LowerAll(model_id)
        qualified == QualifiedMatches(all_models, model_key)
        slash == FirstSlash(model_id)
    IN IF model_id = <<>>
       THEN Resolution(<<>>, <<>>, <<>>, "no_selection")
       ELSE IF slash > 0
       THEN IF qualified # <<>>
            THEN Resolution(qualified[Len(qualified)][1],
                            qualified[Len(qualified)][2], <<>>, "")
            ELSE Resolution(SubSeq(model_id, 1, slash - 1),
                            SubSeq(model_id, slash + 1, Len(model_id)),
                            "warning", "")
       ELSE IF NameMatches(all_models, model_key) # <<>>
       THEN ResolveBareMatch(model_id, default_provider, all_models)
       ELSE Resolution(default_provider, model_id, "warning", "")

DoResolveModelSelection ==
    /\ rsv.op = "input"
    /\ rsv' = [rsv EXCEPT !.op = "resolved",
                          !.result = ResolveModelSelection(rsv.model_id, <<"p">>,
                                                           rsv.all_models)]
    /\ UNCHANGED besideResolve

InitResolve ==
    /\ StoreIdle
    /\ sel = NoSelector
    /\ cfg = NoConfig
    /\ san = NoSanitize
    /\ tree = <<>>
    /\ pval = NoValidation
    /\ procs = <<>>
    /\ reg = NoRegistry
    /\ strm = NoStreaming
    /\ nons = NoNonStreaming
    /\ brw = NoBrowse
    /\ cch = NoCache
    /\ \E model_id \in ModelIdInputs, all_models \in AllModelsInputs :
        rsv = [op |-> "input", model_id |-> model_id,
               all_models |-> all_models,
               result |-> Resolution(<<>>, <<>>, <<>>, "")]

NextResolve == DoResolveModelSelection

SpecResolve == InitResolve /\ [][NextResolve]_vars

\* the providers of all_models that list a model with this id
Exposing(all_models, model_id) ==
    {all_models[i].provider : i \in
        {j \in 1..Len(all_models) :
            \E k \in 1..Len(all_models[j].models) :
                all_models[j].models[k] = model_id}}

\* C27: a bare model id that two or more providers expose resolves to the
\* error "ambiguous" with no provider chosen; a bare id that no provider
\* exposes, whatever the case of its letters, does not.
C27_AmbiguousIsNotNotFound ==
    (rsv.op = "resolved" /\ rsv.model_id # <<>> /\ FirstSlash(rsv.model_id) = 0)
    => /\ Cardinality(Exposing(rsv.all_models, rsv.model_id)) >= 2
          => /\ rsv.result.error = "ambiguous"
             /\ rsv.result.provider = <<>>
             /\ Len(rsv.result.extra) >= 2
       /\ NameMatches(rsv.all_models, LowerAll(rsv.model_id)) = <<>>
          => /\ rsv.result.error # "ambiguous"
             /\ rsv.result.model = rsv.model_id

\* both providers list "e", and "e" resolved to the two of them
C27_Witness ==
    /\ rsv.op = "resolved"
    /\ rsv.model_id = <<"e">>
    /\ Exposing(rsv.all_models, <<"e">>) = ResolveProviders
    /\ rsv.result.error = "ambiguous"
    /\ Len(rsv.result.extra) = 2

----------------------------------------------------------------------------
(* Configuration: ConfigManager.save (config/config_manager.py) *)

\* the default providers and models a configuration names
ConfigProviders == {"openai", "ollama"}
ConfigModelNames == {"gpt-4", "original-model", "new-model"}

\* the configuration _create_default_config writes (config_manager.py 42-49)
DefaultConfig == [provider |-> "openai", model |-> "gpt-4"]

\* yaml.dump(config.model_dump(), default_flow_style=False): the document,
\* line by line, keys in sorted order
YamlDump(config) ==
    << <<"defaults:">>,
       <<"model:", config.model>>,
       <<"provider:", config.provider>>,
       <<"version:", "1.0">> >>

\* what can go wrong in save: nothing; open() fails before it touched the
\* file; yaml.dump raises or is interrupted after it wrote some lines
SaveFaults ==
    {[at |-> "none", written |-> 0], [at |-> "open", written |-> 0]}
    \cup {[at |-> "dump", written |-> k] : k \in 0..(Len(YamlDump(DefaultConfig)) - 1)}

\* open(self.config_path, "w") empties the file (config_manager.py 123)
OpenForWriting(file) == <<>>

\* save (config_manager.py 121-125): the file after the call
SaveConfig(file, config, fault) ==
    IF fault.at = "open"
    THEN file
    ELSE IF fault.at = "dump"
    THEN OpenForWriting(file) \o SubSeq(YamlDump(config), 1, fault.written)
    ELSE OpenForWriting(file) \o YamlDump(config)

\* cfg.config.defaults.provider = ...; cfg.config.defaults.model = ...
\* (cli/commands/default.py 154-155)
DoSetDefaults ==
    /\ cfg.op # "none"
    /\ \E provider \in ConfigProviders, model \in ConfigModelNames :
        /\ [provider |-> provider, model |-> model] # cfg.config
        /\ cfg' = [cfg EXCEPT !.op = "set",
                              !.config = [provider |-> provider, model |-> model],
                              !.before = cfg.file,
                              !.raised = FALSE]
    /\ UNCHANGED besideConfig

\* ConfigManager.save, with whatever goes wrong in it
DoSaveConfig ==
    /\ cfg.op # "none"
    /\ \E fault \in SaveFaults :
        cfg' = [cfg EXCEPT !.op = "save",
                           !.file = SaveConfig(cfg.file, cfg.config, fault),
                           !.before = cfg.file,
                           !.raised = fault.at # "none"]
    /\ UNCHANGED besideConfig

\* ConfigManager.__init__ wrote the default configuration, or found a
\* configuration file, and loaded it (config_manager.py 18-38)
InitConfig ==
    /\ StoreIdle
    /\ sel = NoSelector
    /\ san = NoSanitize
    /\ tree = <<>>
    /\ pval = NoValidation
    /\ procs = <<>>
    /\ reg = NoRegistry
    /\ strm = NoStreaming
    /\ nons = NoNonStreaming
    /\ brw = NoBrowse
    /\ cch = NoCache
    /\ rsv = NoResolve
    /\ \E provider \in ConfigProviders, model \in ConfigModelNames :
        LET config == [provider |-> provider, model |-> model]
        IN cfg = [op |-> "loaded", config |-> config,
                  file |-> YamlDump(config), before |-> YamlDump(config),
                  raised |-> FALSE]

NextConfig == DoSetDefaults \/ DoSaveConfig

SpecConfig == InitConfig /\ [][NextConfig]_vars

\* C28: when save fails or is interrupted, the configuration file holds
\* exactly the content it had before the call.
C28_FailedSaveKeepsFile ==
    (cfg.op = "save" /\ cfg.raised) => cfg.file = cfg.before

----------------------------------------------------------------------------
(* The fuzzy selector: InteractiveFuzzySelector (cli/fuzzy_selector.py) *)

MaxResults == 6
MaxPageSize == 3

\* InteractiveFuzzySelector.__init__ (fuzzy_selector.py 41-66)
NewSelector(total_results, page_size) ==
    [op |-> "new", total_results |-> total_results, page_size |-> page_size,
     total_pages |-> (total_results + page_size - 1) \div page_size,
     current_page |-> 0, highlighted_index |-> 0, raised |-> FALSE]

\* end_idx - start_idx of the current page (fuzzy_selector.py 201-203)
ItemsOnPage(s) ==
    Min(s.current_page * s.page_size + s.page_size, s.total_results)
        - s.current_page * s.page_size

\* _handle_key_up (fuzzy_selector.py 185-197); x % 0 raises
\* ZeroDivisionError before anything was assigned
HandleKeyUp(s) ==
    IF s.highlighted_index > 0
    THEN [s EXCEPT !.op = "up", !.highlighted_index = @ - 1]
    ELSE IF s.total_pages = 0
    THEN [s EXCEPT !.op = "up", !.raised = TRUE]
    ELSE LET p == [s EXCEPT !.op = "up",
                            !.current_page = (@ - 1) % s.total_pages]
         IN [p EXCEPT !.highlighted_index = ItemsOnPage(p) - 1]

\* the wrap of _handle_key_down to the next page (fuzzy_selector.py 208-211)
WrapToNextPage(s) ==
    IF s.total_pages = 0
    THEN [s EXCEPT !.op = "down", !.raised = TRUE]
    ELSE [s EXCEPT !.op = "down",
                   !.current_page = (@ + 1) % s.total_pages,
                   !.highlighted_index = 0]

\* _handle_key_down (fuzzy_selector.py 199-211)
HandleKeyDown(s) ==
    IF s.highlighted_index < ItemsOnPage(s) - 1
    THEN [s EXCEPT !.op = "down", !.highlighted_index = @ + 1]
    ELSE WrapToNextPage(s)

\* the exception of a key handler ends the application
DoKeyUp ==
    /\ sel.op # "none"
    /\ ~sel.raised
    /\ sel' = HandleKeyUp(sel)
    /\ UNCHANGED besideSelector

DoKeyDown ==
    /\ sel.op # "none"
    /\ ~sel.raised
    /\ sel' = HandleKeyDown(sel)
    /\ UNCHANGED besideSelector

InitSelector ==
    /\ StoreIdle
    /\ san = NoSanitize
    /\ tree = <<>>
    /\ pval = NoValidation
    /\ procs = <<>>
    /\ reg = NoRegistry
    /\ strm = NoStreaming
    /\ nons = NoNonStreaming
    /\ brw = NoBrowse
    /\ cch = NoCache
    /\ rsv = NoResolve
    /\ cfg = NoConfig
    /\ \E total_results \in 0..MaxResults, page_size \in 1..MaxPageSize :
        sel = NewSelector(total_results, page_size)

NextSelector == DoKeyUp \/ DoKeyDown

SpecSelector == InitSelector /\ [][NextSelector]_vars

\* C30: Up and Down are handled without error whatever the number of
\* results, and with one result or more the highlight stays on an item
\* that exists, on the current page.
C30_KeysKeepHighlightOnItem ==
    sel.op # "none"
    => /\ ~sel.raised
       /\ sel.total_results > 0
          => /\ 0 <= sel.current_page * sel.page_size + sel.highlighted_index
             /\ sel.current_page * sel.page_size + sel.highlighted_index
                    < sel.total_results
             /\ sel.highlighted_index < ItemsOnPage(sel)

====
